---- MODULE Spec2Model ----
(***************************************************************************)
(* TinyRDB storage core: the page allocator (data file), the write-ahead   *)
(* log (log file, recovery on open, in-memory cache of transactions by     *)
(* page id) and the database manager (LRU page cache, WritePages, GetPage, *)
(* checkpoint).                                                            *)
(*                                                                         *)
(* Files are modelled by their content.  The log file is a sequence of     *)
(* bytes; integers in it are little-endian with the widths of the code     *)
(* (8 and 4 bytes).  The data file is a sequence of pages, each a header   *)
(* (version, type, checksum) and a body of BodySize cells.  File handles   *)
(* carry the I/O offset that Write and Truncate use.  The cache entries of *)
(* the LRU list are heap nodes with an identity, linked by next and prev   *)
(* as in the code.                                                         *)
(***************************************************************************)
EXTENDS Integers, Sequences, FiniteSets, TLC

VARIABLES
    logFile,     \* content of wal.log: a sequence of bytes
    wal,         \* the WriteAheadLog object: Log (handle), Cache, nextTransactionId, fileSize
    dataFile,    \* content of data.db: a sequence of pages, page id i at index i+1
    allocator,   \* the PageAllocator object: Database (handle), emptyChecksum
    lru,         \* DatabaseManager.database, head, tail and the CacheEntry heap
    cacheCapacityPages,
    checkpointSizeThreshold,
    last,        \* the last call made and what it returned
    gRecords,    \* history: the records written to the log file since it was created
    gTorn,       \* history: number of bytes of an incomplete record at the end of the log
    gClean,      \* history: the log file is exactly the records of gRecords plus gTorn bytes
    gSnap,       \* history: what GetPage returned for each page before the last shutdown
    gFlushed,    \* history: what GetPage returned for the logged pages before the checkpoint just made
    gWritten,    \* history: page ids named by successful WritePages calls
    gAllocated,  \* history: page ids returned by AllocatePage
    gBudget,     \* history: calls and environment events made so far
    gRef         \* history: the pages touched since the cache was empty, and what they hold

walVars == <<logFile, wal>>
dbVars == <<dataFile, allocator, lru, cacheCapacityPages, checkpointSizeThreshold>>
ghostVars == <<last, gRecords, gTorn, gClean, gSnap, gFlushed, gWritten, gAllocated, gBudget,
               gRef>>
vars == <<logFile, wal, dataFile, allocator, lru, cacheCapacityPages,
          checkpointSizeThreshold, last, gRecords, gTorn, gClean, gSnap,
          gFlushed, gWritten, gAllocated, gBudget, gRef>>

(***************************************************************************)
(* Bounds of the model.                                                    *)
(***************************************************************************)
MaxLogRecords == 2    \* WAL-only specification: records appended to one log file
MaxPages == 3         \* data file: page ids handed out by AllocatePage stay below this
MaxWrites == 2        \* database specification: WritePages calls
MaxEvents == 2        \* environment events (torn tail, bad CRC, failed write)
MaxTorn == 1          \* of these, crashes that leave an incomplete record
MaxRestarts == 2      \* times the files are opened again
MaxReopens == 1       \* the same, where flushCheckpoint is called as well
MaxCachePages == 3    \* cache specification: user pages in the data file

(***************************************************************************)
(* Bytes.  binary.LittleEndian.AppendUint64 / AppendUint32 and the reads   *)
(* of binary.Read.  Values the program writes stay below 2^24 within the   *)
(* bounds; a field read back with a higher byte set decodes to 2^24, which *)
(* stands for every larger value.                                          *)
(***************************************************************************)
LE(v, n) ==
    [i \in 1..n |->
        IF i = 1 THEN v % 256
        ELSE IF i = 2 THEN (v \div 256) % 256
        ELSE IF i = 3 THEN (v \div 65536) % 256
        ELSE IF i = 4 THEN (v \div 16777216) % 256
        ELSE 0]

Num(b) ==
    IF \E i \in 4..Len(b) : b[i] # 0
    THEN 16777216
    ELSE b[1] + 256 * b[2] + 65536 * b[3]

Zeros(n) == [i \in 1..n |-> 0]

\* crc32.ChecksumIEEE, as a position-sensitive 24-bit checksum: a deterministic
\* function of the bytes whose value for an all-zero input is not zero.
RECURSIVE ChecksumFrom(_, _, _)
ChecksumFrom(data, i, h) ==
    IF i > Len(data) \/ h < 0 THEN h
    ELSE ChecksumFrom(data, i + 1, (h * 31 + data[i] + 1) % 16777216)

getChecksumFromBytes(data) == ChecksumFrom(data, 1, 0)

\* os.File.Write at the handle's offset: bytes between the end of the file and
\* the offset read as zero.
WriteAtOffset(file, pos, bytes) ==
    LET n == IF pos + Len(bytes) > Len(file) THEN pos + Len(bytes) ELSE Len(file)
    IN  [i \in 1..n |->
            IF i > pos /\ i <= pos + Len(bytes) THEN bytes[i - pos]
            ELSE IF i <= Len(file) THEN file[i]
            ELSE 0]

(***************************************************************************)
(* WAL record: framing and checksum.                                       *)
(***************************************************************************)
\* Fault variant of the serialization: the new bytes are written before the
\* old ones.
RECURSIVE SerializeBodyNewFirst(_)
SerializeBodyNewFirst(Body) ==
    IF Body = <<>> THEN <<>>
    ELSE LET page == Head(Body)
         IN  LE(page.PageId, 8) \o LE(page.Offset, 4) \o LE(page.Length, 4)
                 \o page.NewData \o page.OldData \o SerializeBodyNewFirst(Tail(Body))

RECURSIVE SerializeBody(_)
SerializeBody(Body) ==
    IF Body = <<>> THEN <<>>
    ELSE LET page == Head(Body)
         IN  LE(page.PageId, 8) \o LE(page.Offset, 4) \o LE(page.Length, 4)
                 \o page.OldData \o page.NewData \o SerializeBody(Tail(Body))

\* The bytes the checksum covers: header, entries, and the id once more.
RecordData(id, pageCount, Body) ==
    LE(id, 8) \o LE(pageCount, 4) \o SerializeBody(Body) \o LE(id, 8)

\* Fault variant of checkSum: every stored checksum is accepted.
checkSumAccepts(transaction) ==
    LET checksum == getChecksumFromBytes(
            RecordData(transaction.Header.transactionId,
                       transaction.Header.pageCount, transaction.Body))
    IN  <<checksum, transaction.End.Checksum, TRUE>>

\* Transaction.checkSum: <<computed, stored, equal>>.
checkSum(transaction) ==
    LET checksum == getChecksumFromBytes(
            RecordData(transaction.Header.transactionId,
                       transaction.Header.pageCount, transaction.Body))
    IN  <<checksum, transaction.End.Checksum, transaction.End.Checksum = checksum>>

\* Transaction{} after MakeTransaction.
MakeTransaction ==
    [Header |-> [transactionId |-> 0, pageCount |-> 0],
     Body |-> <<>>,
     End |-> [TransactionId |-> 0, Checksum |-> 0]]

(***************************************************************************)
(* WAL reader.                                                             *)
(***************************************************************************)
\* binary.Read of n bytes at pos (io.ReadFull): io.EOF when no byte is left,
\* io.ErrUnexpectedEOF when some but not all are.
ReadErr(bytes, pos, n) ==
    IF n = 0 \/ Len(bytes) - pos >= n THEN "nil"
    ELSE IF Len(bytes) - pos <= 0 THEN "EOF"
    ELSE "ErrUnexpectedEOF"

Field(bytes, pos, n) == Num(SubSeq(bytes, pos + 1, pos + n))

\* The loop of getTransaction over the page entries.
RECURSIVE readBody(_, _, _, _)
readBody(bytes, pos, count, Body) ==
    IF count = 0 THEN [err |-> "nil", pos |-> pos, Body |-> Body]
    ELSE IF ReadErr(bytes, pos, 8) # "nil"
    THEN [err |-> ReadErr(bytes, pos, 8), pos |-> pos, Body |-> Body]
    ELSE IF ReadErr(bytes, pos + 8, 4) # "nil"
    THEN [err |-> ReadErr(bytes, pos + 8, 4), pos |-> pos + 8, Body |-> Body]
    ELSE IF ReadErr(bytes, pos + 12, 4) # "nil"
    THEN [err |-> ReadErr(bytes, pos + 12, 4), pos |-> pos + 12, Body |-> Body]
    ELSE
      LET Length == Field(bytes, pos + 12, 4)
          p3 == pos + 16
      IN  IF ReadErr(bytes, p3, Length) # "nil"
          THEN [err |-> ReadErr(bytes, p3, Length), pos |-> p3, Body |-> Body]
          ELSE IF ReadErr(bytes, p3 + Length, Length) # "nil"
          THEN [err |-> ReadErr(bytes, p3 + Length, Length), pos |-> p3 + Length,
                Body |-> Body]
          ELSE readBody(bytes, p3 + 2 * Length, count - 1,
                   Append(Body,
                       [PageId |-> Field(bytes, pos, 8),
                        Offset |-> Field(bytes, pos + 8, 4),
                        Length |-> Length,
                        OldData |-> SubSeq(bytes, p3 + 1, p3 + Length),
                        NewData |-> SubSeq(bytes, p3 + Length + 1, p3 + 2 * Length)]))

\* WalReader.getTransaction with bytesRead = pos on entry: the transaction read,
\* the error, and bytesRead afterwards.
getTransaction(bytes, pos) ==
    IF ReadErr(bytes, pos, 8) # "nil"
    THEN [err |-> ReadErr(bytes, pos, 8), pos |-> pos, transaction |-> MakeTransaction]
    ELSE IF ReadErr(bytes, pos + 8, 4) # "nil"
    THEN [err |-> ReadErr(bytes, pos + 8, 4), pos |-> pos + 8,
          transaction |-> MakeTransaction]
    ELSE
      LET hdr == [transactionId |-> Field(bytes, pos, 8),
                  pageCount |-> Field(bytes, pos + 8, 4)]
          Footer(b) ==
              IF b.err # "nil"
              THEN [err |-> b.err, pos |-> b.pos,
                    transaction |-> [MakeTransaction EXCEPT !.Header = hdr, !.Body = b.Body]]
              ELSE IF ReadErr(bytes, b.pos, 8) # "nil"
              THEN [err |-> ReadErr(bytes, b.pos, 8), pos |-> b.pos,
                    transaction |-> [MakeTransaction EXCEPT !.Header = hdr, !.Body = b.Body]]
              ELSE IF ReadErr(bytes, b.pos + 8, 4) # "nil"
              THEN [err |-> ReadErr(bytes, b.pos + 8, 4), pos |-> b.pos + 8,
                    transaction |-> [MakeTransaction EXCEPT !.Header = hdr, !.Body = b.Body]]
              ELSE [err |-> "nil", pos |-> b.pos + 12,
                    transaction |->
                        [Header |-> hdr, Body |-> b.Body,
                         End |-> [TransactionId |-> Field(bytes, b.pos, 8),
                                  Checksum |-> Field(bytes, b.pos + 8, 4)]]]
      IN  Footer(readBody(bytes, pos + 12, Field(bytes, pos + 8, 4), <<>>))

(***************************************************************************)
(* Write-ahead log.                                                        *)
(***************************************************************************)
EmptyCache == [p \in {} |-> <<>>]

\* A WriteAheadLog{} value before Initialize.
NewWal ==
    [Log |-> [open |-> FALSE, pos |-> 0],
     Cache |-> EmptyCache,
     nextTransactionId |-> 0,
     fileSize |-> 0]

\* addCache: one reference to the transaction per entry of its body, under
\* that entry's page id.
RECURSIVE addCacheFrom(_, _, _)
addCacheFrom(Cache, transaction, i) ==
    IF i > Len(transaction.Body) THEN Cache
    ELSE LET pid == transaction.Body[i].PageId
         IN  addCacheFrom(IF pid \in DOMAIN Cache
                          THEN [Cache EXCEPT ![pid] = Append(@, transaction)]
                          ELSE [p \in DOMAIN Cache \cup {pid} |->
                                   IF p = pid THEN <<transaction>> ELSE Cache[p]],
                          transaction, i + 1)

addCache(Cache, transaction) == addCacheFrom(Cache, transaction, 1)

\* The recovery loop of Initialize from byte offset `offset`.
RECURSIVE recoverLoop(_, _, _, _)
recoverLoop(bytes, offset, Cache, fileSize) ==
    LET Step(r) ==
            IF r.err # "nil"
            THEN [file |-> SubSeq(bytes, 1, offset),
                  err |-> IF r.err = "EOF" THEN "nil" ELSE r.err,
                  Cache |-> Cache, fileSize |-> fileSize]
            ELSE IF ~checkSum(r.transaction)[3]
            THEN recoverLoop(bytes, r.pos, Cache, fileSize)
            ELSE recoverLoop(bytes, r.pos, addCache(Cache, r.transaction), r.pos)
    IN  Step(getTransaction(bytes, offset))

\* Fault variant of Initialize: the file is not truncated.
WalInitializeKeepsTail(w, file) ==
    LET Done(r) ==
            [wal |-> [w EXCEPT !.Log = [open |-> TRUE, pos |-> Len(file)],
                               !.Cache = r.Cache,
                               !.fileSize = r.fileSize],
             file |-> file,
             err |-> r.err]
    IN  Done(recoverLoop(file, 0, EmptyCache, w.fileSize))

\* WriteAheadLog.Initialize on the object w and the file content `file`.  The
\* buffered reader has read the file to its end, which leaves the handle's
\* offset there; Truncate does not move it.
WalInitialize(w, file) ==
    LET Done(r) ==
            [wal |-> [w EXCEPT !.Log = [open |-> TRUE, pos |-> Len(file)],
                               !.Cache = r.Cache,
                               !.fileSize = r.fileSize],
             file |-> r.file,
             err |-> r.err]
    IN  Done(recoverLoop(file, 0, EmptyCache, w.fileSize))

closeFile(w) == [w EXCEPT !.Log.open = FALSE]

\* Fault variant of clearFromDisc: the file is not removed and the cache is
\* not emptied before the log is read again.
clearFromDiscRereads(w, file) ==
    LET Done(r) ==
            [wal |-> [w EXCEPT !.Log = [open |-> TRUE, pos |-> Len(file)],
                               !.Cache = r.Cache,
                               !.fileSize = r.fileSize],
             file |-> r.file,
             err |-> r.err]
    IN  Done(recoverLoop(file, 0, w.Cache, w.fileSize))

\* clearFromDisc: close, remove the file, Initialize on the same object.
clearFromDisc(w, file) == WalInitialize(closeFile(w), <<>>)

\* The calls of addCache that AppendTransaction makes: one per entry of the body.
RECURSIVE addCacheTimes(_, _, _)
addCacheTimes(Cache, transaction, n) ==
    IF n = 0 THEN Cache
    ELSE addCacheTimes(addCache(Cache, transaction), transaction, n - 1)

\* Fault variant of AppendTransaction: the id is counted before the write,
\* so a failed write uses one up.
AppendTransactionCountsFirst(w, file, transaction, writeFails) ==
    LET Write(rec, cached) ==
            IF writeFails
            THEN [wal |-> [w EXCEPT !.Cache = cached, !.nextTransactionId = @ + 1],
                  file |-> file, err |-> "io", id |-> w.nextTransactionId + 1]
            ELSE [wal |-> [w EXCEPT !.Cache = cached,
                                    !.Log.pos = @ + Len(rec),
                                    !.nextTransactionId = @ + 1,
                                    !.fileSize = @ + Len(rec)],
                  file |-> WriteAtOffset(file, w.Log.pos, rec),
                  err |-> "nil", id |-> w.nextTransactionId]
        Sum(data) == data \o LE(getChecksumFromBytes(data), 4)
    IN  Write(Sum(RecordData(w.nextTransactionId, transaction.Header.pageCount,
                             transaction.Body)),
              addCacheTimes(w.Cache, transaction, Len(transaction.Body)))

\* AppendTransaction; writeFails is the outcome of Log.Write.
AppendTransaction(w, file, transaction, writeFails) ==
    LET Write(rec, cached) ==
            IF writeFails
            THEN [wal |-> [w EXCEPT !.Cache = cached], file |-> file,
                  err |-> "io", id |-> w.nextTransactionId]
            ELSE [wal |-> [w EXCEPT !.Cache = cached,
                                    !.Log.pos = @ + Len(rec),
                                    !.nextTransactionId = @ + 1,
                                    !.fileSize = @ + Len(rec)],
                  file |-> WriteAtOffset(file, w.Log.pos, rec),
                  err |-> "nil", id |-> w.nextTransactionId]
        Sum(data) == data \o LE(getChecksumFromBytes(data), 4)
    IN  Write(Sum(RecordData(w.nextTransactionId, transaction.Header.pageCount,
                             transaction.Body)),
              addCacheTimes(w.Cache, transaction, Len(transaction.Body)))

(***************************************************************************)
(* Pages and the page allocator.  A page body has BodySize cells; the      *)
(* metadata of page 0 (free-list head, total page count, page size) and    *)
(* the next pointer of a free page each take one cell, at the start of the *)
(* body as in the code.                                                    *)
(***************************************************************************)
BodySize == 3
DefaultPageSize == 4096
PagetypeMetadata == 0
PagetypeUserdata == 1
PagetypeFreepage == 2
MetadataFreeListHeadOffset == 1
MetadataTotalPageOffset == 2
MetadataPageSizeOffset == 3

MakePageData == Zeros(BodySize)

getChecksum(data) == getChecksumFromBytes(data)

\* A stretch of the file that was never written reads as zero bytes.
HolePage == [PageVersion |-> 0, PageType |-> 0, Checksum |-> 0, body |-> MakePageData]

\* A PageAllocator{} value before Initialize.  Database.pos is the handle's
\* I/O offset in pages: os.OpenFile leaves it at 0 and only Write moves it.
NewAllocator == [Database |-> [open |-> FALSE, pos |-> 0], emptyChecksum |-> 0]

\* A page whose body stops short is the last page of a file that ends inside
\* it; once the file reaches further the rest of the page reads as zeros.
Short(pg) == Len(pg.body) < BodySize

Whole(pg) == [pg EXCEPT !.body = @ \o Zeros(BodySize - Len(@))]

\* The file with page id `id` replaced by f(old page); the file grows, with
\* holes, when id lies at or past its end (WriteAt past the end).
UpdatePage(file, id, f(_)) ==
    LET n == IF id + 1 > Len(file) THEN id + 1 ELSE Len(file)
        old(i) == IF i <= Len(file) THEN file[i] ELSE HolePage
        new(i) == IF i = id + 1 THEN f(old(i)) ELSE old(i)
    IN  [i \in 1..n |-> IF i < n THEN Whole(new(i)) ELSE new(i)]

\* WritePageHeader for the two fields the code writes.
WritePageHeaderType(file, id, pageType) ==
    LET f(pg) == [pg EXCEPT !.PageType = pageType] IN UpdatePage(file, id, f)

WritePageHeaderChecksum(file, id, checksum) ==
    LET f(pg) == [pg EXCEPT !.Checksum = checksum] IN UpdatePage(file, id, f)

\* readPageDataWithoutVerify: the body, zero where the file ends.
readPageDataWithoutVerify(file, id) ==
    IF id + 1 <= Len(file) THEN Whole(file[id + 1]).body ELSE MakePageData

\* ReadMetadata: end of file reads as 0.
ReadMetadata(file, offset) ==
    IF Len(file) = 0 THEN 0 ELSE file[1].body[offset]

\* WriteMetadata: the value, then the checksum of page 0.
WriteMetadata(file, offset, data) ==
    LET f(pg) == [pg EXCEPT !.body[offset] = data]
        Sum(f1) == WritePageHeaderChecksum(f1, 0, getChecksum(readPageDataWithoutVerify(f1, 0)))
    IN  Sum(UpdatePage(file, 0, f))

ReadFreeList(file) == ReadMetadata(file, MetadataFreeListHeadOffset)

WriteFreeList(file, id) == WriteMetadata(file, MetadataFreeListHeadOffset, id)

\* Fault variant of WritePageData: the checksum in the header is left as it
\* was.
WritePageDataKeepsSum(file, id, data) ==
    LET f(pg) == [pg EXCEPT !.body = data] IN UpdatePage(file, id, f)

\* WritePageData: the body, then its checksum in the header.
WritePageData(file, id, data) ==
    LET f(pg) == [pg EXCEPT !.body = data]
    IN  WritePageHeaderChecksum(UpdatePage(file, id, f), id, getChecksum(data))

\* ReadPageData: the body and the error (end of file, or checksum mismatch).
ReadPageData(file, id) ==
    IF id + 1 > Len(file) THEN [data |-> MakePageData, err |-> "EOF"]
    ELSE IF Short(file[id + 1]) THEN [data |-> Whole(file[id + 1]).body, err |-> "EOF"]
    ELSE IF file[id + 1].Checksum # getChecksum(file[id + 1].body)
    THEN [data |-> file[id + 1].body, err |-> "Checksum Mismatch"]
    ELSE [data |-> file[id + 1].body, err |-> "nil"]

\* Database.Write of one whole page at the handle's offset.
WritePageAtHandle(a, file, pg) ==
    LET f(old) == pg
    IN  [allocator |-> [a EXCEPT !.Database.pos = @ + 1],
         file |-> UpdatePage(file, a.Database.pos, f)]

\* Fault variant of Initialize: the page count of a new file is left at 0.
AllocatorInitializeCountsZero(a, file) ==
    LET a1 == [a EXCEPT !.Database = [open |-> TRUE, pos |-> 0],
                        !.emptyChecksum = getChecksum(MakePageData)]
        Meta(w) ==
            [allocator |-> w.allocator,
             file |-> WriteMetadata(WriteMetadata(w.file, MetadataFreeListHeadOffset, 0),
                                    MetadataPageSizeOffset, DefaultPageSize)]
    IN  IF Len(file) # 0 THEN [allocator |-> a1, file |-> file]
        ELSE Meta(WritePageAtHandle(a1, file,
                      [PageVersion |-> 0, PageType |-> PagetypeMetadata,
                       Checksum |-> 0, body |-> MakePageData]))

\* PageAllocator.Initialize: open; on an empty file write the metadata page
\* (its header checksum is left 0 by the first write, then set by
\* WriteMetadata).
AllocatorInitialize(a, file) ==
    LET a1 == [a EXCEPT !.Database = [open |-> TRUE, pos |-> 0],
                        !.emptyChecksum = getChecksum(MakePageData)]
        Meta(w) ==
            [allocator |-> w.allocator,
             file |-> WriteMetadata(
                          WriteMetadata(
                              WriteMetadata(w.file, MetadataFreeListHeadOffset, 0),
                              MetadataTotalPageOffset, 1),
                          MetadataPageSizeOffset, DefaultPageSize)]
    IN  IF Len(file) # 0 THEN [allocator |-> a1, file |-> file]
        ELSE Meta(WritePageAtHandle(a1, file,
                      [PageVersion |-> 0, PageType |-> PagetypeMetadata,
                       Checksum |-> 0, body |-> MakePageData]))

\* Fault variant of AllocatePage: a page taken from the free list keeps the
\* type it had.
AllocatePageKeepsType(a, file, pageType) ==
    LET freePage == ReadFreeList(file)
        id == ReadMetadata(file, MetadataTotalPageOffset)
        Count(w) ==
            [allocator |-> w.allocator,
             file |-> WriteMetadata(w.file, MetadataTotalPageOffset, id + 1),
             id |-> id, err |-> "nil"]
    IN  IF freePage = 0
        THEN Count(WritePageAtHandle(a, file,
                       [PageVersion |-> 0, PageType |-> pageType,
                        Checksum |-> a.emptyChecksum, body |-> MakePageData]))
        ELSE IF freePage + 1 > Len(file)
        THEN [allocator |-> a, file |-> file, id |-> 0, err |-> "EOF"]
        ELSE [allocator |-> a,
              file |-> WriteFreeList(file, file[freePage + 1].body[1]),
              id |-> freePage, err |-> "nil"]

\* PageAllocator.AllocatePage.
AllocatePage(a, file, pageType) ==
    LET freePage == ReadFreeList(file)
        id == ReadMetadata(file, MetadataTotalPageOffset)
        Count(w) ==
            [allocator |-> w.allocator,
             file |-> WriteMetadata(w.file, MetadataTotalPageOffset, id + 1),
             id |-> id, err |-> "nil"]
    IN  IF freePage = 0
        THEN Count(WritePageAtHandle(a, file,
                       [PageVersion |-> 0, PageType |-> pageType,
                        Checksum |-> a.emptyChecksum, body |-> MakePageData]))
        ELSE IF freePage + 1 > Len(file)
        THEN [allocator |-> a, file |-> file, id |-> 0, err |-> "EOF"]
        ELSE [allocator |-> a,
              file |-> WritePageHeaderType(WriteFreeList(file, file[freePage + 1].body[1]),
                                           freePage, pageType),
              id |-> freePage, err |-> "nil"]

\* The 8 bytes of a next pointer written at the start of the body of page
\* id: on a page at or past the end of the file they become the end of the
\* file.
WriteNext(file, id, oldId) ==
    LET next(pg) == IF id + 1 > Len(file)
                    THEN [pg EXCEPT !.body = <<oldId>>]
                    ELSE [pg EXCEPT !.body[1] = oldId]
    IN  UpdatePage(file, id, next)

\* Fault variant of FreePage: the free-list head in the metadata is not
\* written.
FreePageKeepsHead(file, id) ==
    LET oldId == ReadFreeList(file)
        Type(f3) == [file |-> WritePageHeaderType(f3, id, PagetypeFreepage), err |-> "nil"]
        Sum(f2) == IF Short(f2[id + 1]) THEN [file |-> f2, err |-> "EOF"]
                   ELSE Type(WritePageHeaderChecksum(f2, id,
                                 getChecksum(readPageDataWithoutVerify(f2, id))))
    IN  Sum(WriteNext(file, id, oldId))

\* PageAllocator.FreePage: the free-list head becomes id, the old head is
\* written to the first cell of the page, then the page is read back and
\* its checksum and type are set.  Reading back a page that the file does
\* not hold in full fails (io.EOF) and FreePage returns there.
FreePage(file, id) ==
    LET oldId == ReadFreeList(file)
        Type(f3) == [file |-> WritePageHeaderType(f3, id, PagetypeFreepage), err |-> "nil"]
        Sum(f2) == IF Short(f2[id + 1]) THEN [file |-> f2, err |-> "EOF"]
                   ELSE Type(WritePageHeaderChecksum(f2, id,
                                 getChecksum(readPageDataWithoutVerify(f2, id))))
    IN  Sum(WriteNext(WriteFreeList(file, id), id, oldId))

\* PageAllocator.VerifyDatabase: the pages below the page count, in order;
\* a page past the end of the file is a read error.
RECURSIVE VerifyFrom(_, _, _)
VerifyFrom(file, x, count) ==
    IF x >= count THEN [ok |-> TRUE, err |-> "nil"]
    ELSE IF x + 1 > Len(file) \/ Short(file[x + 1]) THEN [ok |-> FALSE, err |-> "EOF"]
    ELSE IF getChecksum(file[x + 1].body) # file[x + 1].Checksum
    THEN [ok |-> FALSE, err |-> "nil"]
    ELSE VerifyFrom(file, x + 1, count)

VerifyDatabase(file) == VerifyFrom(file, 0, ReadMetadata(file, MetadataTotalPageOffset))

CloseFile(a) == [a EXCEPT !.Database.open = FALSE]

(***************************************************************************)
(* The page cache of the DatabaseManager: the map `database` from page id  *)
(* to a CacheEntry, and the doubly linked list through head and tail.      *)
(* CacheEntry values live in `nodes` under a node id; 0 is the nil         *)
(* pointer.  An entry is created with next = nil and prev = old head.      *)
(***************************************************************************)
EmptyLru == [database |-> [p \in {} |-> 0], nodes |-> [n \in {} |-> 0],
             head |-> 0, tail |-> 0]

NewNode(l) == CHOOSE n \in 1..(Cardinality(DOMAIN l.nodes) + 1) : n \notin DOMAIN l.nodes

\* Fault variant of removeTail: the tail stays in the map.
removeTailKeepsMap(l) ==
    IF l.tail = 0 THEN l
    ELSE IF l.nodes[l.tail].next # 0
    THEN [l EXCEPT !.tail = l.nodes[l.tail].next, !.nodes[l.nodes[l.tail].next].prev = 0]
    ELSE [l EXCEPT !.head = 0, !.tail = 0]

\* removeTail: drop the map entry that is the tail, move tail to tail.next.
removeTail(l) ==
    IF l.tail = 0 THEN l
    ELSE LET t == l.tail
             db1 == [p \in {q \in DOMAIN l.database : l.database[q] # t} |-> l.database[p]]
         IN  IF l.nodes[t].next # 0
             THEN [l EXCEPT !.database = db1, !.tail = l.nodes[t].next,
                            !.nodes[l.nodes[t].next].prev = 0]
             ELSE [l EXCEPT !.database = db1, !.head = 0, !.tail = 0]

\* makeHead: the four pointer assignments of the code, one after another.
makeHead(l, pageId) ==
    LET e == l.database[pageId]
        First(n0) == IF n0[e].next # 0 THEN [n0 EXCEPT ![n0[e].next].prev = n0[e].prev] ELSE n0
        Second(n1) == IF n1[e].prev # 0 THEN [n1 EXCEPT ![n1[e].prev].next = n1[e].next] ELSE n1
        Third(n2) == [n2 EXCEPT ![e].prev = l.head]
        Fourth(n3) == [n3 EXCEPT ![e].next = 0]
    IN  [l EXCEPT !.nodes = Fourth(Third(Second(First(l.nodes)))), !.head = e]

\* Fault variant of addCacheData: nothing is evicted.
addCacheDataKeepsAll(l, data, pageId, capacity) ==
    LET n == NewNode(l)
    IN  [database |-> [p \in DOMAIN l.database \cup {pageId} |->
                         IF p = pageId THEN n ELSE l.database[p]],
         nodes |-> [m \in DOMAIN l.nodes \cup {n} |->
                      IF m = n THEN [data |-> data, next |-> 0, prev |-> l.head]
                      ELSE IF m = l.head THEN [l.nodes[m] EXCEPT !.next = n]
                      ELSE l.nodes[m]],
         head |-> n,
         tail |-> IF l.head = 0 THEN n ELSE l.tail]

\* addCacheData: evict when the map is at capacity, then link a new entry
\* in front of head.
addCacheData(l, data, pageId, capacity) ==
    LET Link(l1, n) ==
            [database |-> [p \in DOMAIN l1.database \cup {pageId} |->
                             IF p = pageId THEN n ELSE l1.database[p]],
             nodes |-> [m \in DOMAIN l1.nodes \cup {n} |->
                          IF m = n THEN [data |-> data, next |-> 0, prev |-> l1.head]
                          ELSE IF m = l1.head THEN [l1.nodes[m] EXCEPT !.next = n]
                          ELSE l1.nodes[m]],
             head |-> n,
             tail |-> IF l1.head = 0 THEN n ELSE l1.tail]
        Add(l1) == Link(l1, NewNode(l1))
    IN  Add(IF Cardinality(DOMAIN l.database) >= capacity THEN removeTail(l) ELSE l)

\* Entries no pointer leads to any more are garbage, and the address of an
\* entry is not observable: the entries that can still be reached are kept
\* and numbered in a fixed order (the entries of the map by page id, then
\* head and tail, then what their links lead to).
RECURSIVE SortedPages(_)
SortedPages(S) ==
    IF S = {} THEN <<>>
    ELSE LET p == CHOOSE q \in S : \A r \in S : q <= r
         IN  <<p>> \o SortedPages(S \ {p})

Seen(seq, n) == IF n = 0 \/ \E i \in 1..Len(seq) : seq[i] = n THEN seq ELSE Append(seq, n)

RECURSIVE Reach(_, _, _)
Reach(l, seq, i) ==
    IF i > Len(seq) THEN seq
    ELSE Reach(l, Seen(Seen(seq, l.nodes[seq[i]].next), l.nodes[seq[i]].prev), i + 1)

Collect(l) ==
    LET Renumber(seq) ==
            LET at(n) == IF n = 0 THEN 0 ELSE CHOOSE i \in 1..Len(seq) : seq[i] = n
            IN  [database |-> [p \in DOMAIN l.database |-> at(l.database[p])],
                 nodes |-> [i \in 1..Len(seq) |->
                              [data |-> l.nodes[seq[i]].data,
                               next |-> at(l.nodes[seq[i]].next),
                               prev |-> at(l.nodes[seq[i]].prev)]],
                 head |-> at(l.head),
                 tail |-> at(l.tail)]
        pages == SortedPages(DOMAIN l.database)
    IN  Renumber(Reach(l, Seen(Seen([i \in 1..Len(pages) |-> l.database[pages[i]]],
                                    l.head), l.tail), 1))

(***************************************************************************)
(* The DatabaseManager.                                                    *)
(***************************************************************************)
\* Fault variant of the overlay: the entries of a transaction are laid over
\* the page whatever page id they carry.
RECURSIVE overlayBodyAnyPage(_, _, _, _)
overlayBodyAnyPage(data, Body, pageId, i) ==
    IF i > Len(Body) THEN data
    ELSE overlayBodyAnyPage([c \in 1..Len(data) |->
                        IF c > Body[i].Offset /\ c <= Body[i].Offset + Len(Body[i].NewData)
                        THEN Body[i].NewData[c - Body[i].Offset] ELSE data[c]],
                     Body, pageId, i + 1)

\* One delta laid over a page body; "panic" is the failed slice index.
RECURSIVE overlayBody(_, _, _, _)
overlayBody(data, Body, pageId, i) ==
    IF i > Len(Body) THEN data
    ELSE IF Body[i].PageId # pageId THEN overlayBody(data, Body, pageId, i + 1)
    ELSE overlayBody([c \in 1..Len(data) |->
                        IF c > Body[i].Offset /\ c <= Body[i].Offset + Len(Body[i].NewData)
                        THEN Body[i].NewData[c - Body[i].Offset] ELSE data[c]],
                     Body, pageId, i + 1)

RECURSIVE overlayList(_, _, _, _)
overlayList(data, list, pageId, i) ==
    IF i > Len(list) THEN data
    ELSE overlayList(overlayBody(data, list[i].Body, pageId, 1), list, pageId, i + 1)

OverlayFits(list, pageId) ==
    \A i \in 1..Len(list) : \A j \in 1..Len(list[i].Body) :
        list[i].Body[j].PageId = pageId =>
            list[i].Body[j].Offset + Len(list[i].Body[j].NewData) <= BodySize

\* loadPageFromDisc: the page of the data file (checksum verified), then the
\* logged transactions of that page laid over it in log order.
loadPageFromDisc(w, dfile, pageId) ==
    LET Overlay(r) ==
            IF r.err # "nil" THEN r
            ELSE IF pageId \notin DOMAIN w.Cache THEN r
            ELSE IF ~OverlayFits(w.Cache[pageId], pageId)
            THEN [data |-> r.data, err |-> "panic"]
            ELSE [data |-> overlayList(r.data, w.Cache[pageId], pageId, 1), err |-> "nil"]
    IN  Overlay(ReadPageData(dfile, pageId))

\* GetPage: a cached page is moved to the head and returned; any other page
\* is loaded and cached, whatever the load returned.
GetPage(w, dfile, l, capacity, pageId) ==
    LET Miss(r) ==
            [lru |-> addCacheData(l, r.data, pageId, capacity), data |-> r.data, err |-> r.err]
    IN  IF pageId \in DOMAIN l.database
        THEN [lru |-> makeHead(l, pageId), data |-> l.nodes[l.database[pageId]].data,
              err |-> "nil"]
        ELSE Miss(loadPageFromDisc(w, dfile, pageId))

\* applyDelta: the cells of a cached page; a page that is not in the map or
\* a delta off the page is an error, which WritePages does not look at.
applyDelta(l, change) ==
    IF change.pageId \notin DOMAIN l.database THEN l
    ELSE IF change.offset + Len(change.newData) > BodySize THEN l
    ELSE [l EXCEPT !.nodes[l.database[change.pageId]].data =
            [c \in 1..BodySize |->
                IF c > change.offset /\ c <= change.offset + Len(change.newData)
                THEN change.newData[c - change.offset] ELSE @[c]]]

RECURSIVE applyLoop(_, _, _)
applyLoop(l, changes, i) ==
    IF i > Len(changes) THEN l
    ELSE applyLoop(applyDelta(l, changes[i]), changes, i + 1)

\* The pages of a set written to the data file from their cache entries.
RECURSIVE writeCached(_, _, _)
writeCached(dfile, l, pages) ==
    IF pages = {} THEN dfile
    ELSE LET p == CHOOSE q \in pages : TRUE
         IN  writeCached(WritePageData(dfile, p, l.nodes[l.database[p]].data), l, pages \ {p})

\* Fault variant of flushCheckpoint: the pages are written but the log is
\* not cleared.
flushCheckpointKeepsLog(w, lfile, dfile, l, done) ==
    IF DOMAIN w.Cache \subseteq DOMAIN l.database
    THEN [wal |-> w, logFile |-> lfile,
          dataFile |-> writeCached(dfile, l, DOMAIN w.Cache), err |-> "nil"]
    ELSE [wal |-> w, logFile |-> lfile,
          dataFile |-> writeCached(dfile, l, done), err |-> "panic"]

\* flushCheckpoint.  The loop reads entry.data of every page of wal.Cache
\* before it looks at ok: a page that is not in the map is a nil pointer
\* dereference ("panic").  The map is ranged over in any order, so `done`,
\* the pages written before the panic, is any set of cached pages.
flushCheckpoint(w, lfile, dfile, l, done) ==
    LET Cleared(c) ==
            [wal |-> c.wal, logFile |-> c.file,
             dataFile |-> writeCached(dfile, l, DOMAIN w.Cache), err |-> c.err]
    IN  IF DOMAIN w.Cache \subseteq DOMAIN l.database
        THEN Cleared(clearFromDisc(w, lfile))
        ELSE [wal |-> w, logFile |-> lfile,
              dataFile |-> writeCached(dfile, l, done), err |-> "panic"]

\* The sets `done` can be.
FlushOrders(w, l) ==
    IF DOMAIN w.Cache \subseteq DOMAIN l.database THEN {{}}
    ELSE SUBSET (DOMAIN w.Cache \cap DOMAIN l.database)

checkpointTrigger(w, lfile, dfile, l, threshold, done) ==
    IF w.fileSize >= threshold
    THEN flushCheckpoint(w, lfile, dfile, l, done)
    ELSE [wal |-> w, logFile |-> lfile, dataFile |-> dfile, err |-> "nil"]

\* First loop of WritePages: every page is brought into the cache (or moved
\* to the head) and the delta is checked against the page size.  `entries`
\* collects the cache entry each OldData slice points into.
RECURSIVE faultLoop(_, _, _, _, _, _, _)
faultLoop(w, dfile, l, capacity, changes, i, entries) ==
    LET d == changes[i]
        ok == d.pageId \in DOMAIN l.database
        Check(l1, err, e) ==
            IF err # "nil" THEN [lru |-> l1, err |-> err, entries |-> entries]
            ELSE IF d.offset + Len(d.newData) > BodySize
            THEN [lru |-> l1, err |-> "delta out of bounds", entries |-> entries]
            ELSE faultLoop(w, dfile, l1, capacity, changes, i + 1, Append(entries, e))
        Cached(l1) == Check(l1, "nil", l.database[d.pageId])
        Loaded(l1, r) == Check(l1, r.err, l1.head)
        Load(r) == Loaded(addCacheData(l, r.data, d.pageId, capacity), r)
    IN  IF i > Len(changes) THEN [lru |-> l, err |-> "nil", entries |-> entries]
        ELSE IF ok THEN Cached(makeHead(l, d.pageId))
        ELSE Load(loadPageFromDisc(w, dfile, d.pageId))

\* The PageEntry list of the transaction as AppendTransaction sees it:
\* OldData is a slice of the cache entry's array, read after the deltas
\* were applied.
TransactionBody(l, changes, entries) ==
    [i \in 1..Len(changes) |->
        [PageId |-> changes[i].pageId,
         Offset |-> changes[i].offset,
         Length |-> Len(changes[i].newData),
         OldData |-> SubSeq(l.nodes[entries[i]].data, changes[i].offset + 1,
                            changes[i].offset + Len(changes[i].newData)),
         NewData |-> changes[i].newData]]

\* WritePages: the new state, the error and id returned, and the page
\* entries of the record it appended.
WritePages(w, lfile, dfile, l, capacity, threshold, changes, done, writeFails) ==
    LET Log(c, l2, a, Body) ==
            [wal |-> a.wal, logFile |-> a.file, dataFile |-> c.dataFile,
             lru |-> Collect(l2), err |-> a.err, id |-> a.id, Body |-> Body,
             touched |-> Len(changes)]
        Append2(c, l2, transaction) ==
            Log(c, l2, AppendTransaction(c.wal, c.logFile, transaction, writeFails),
                transaction.Body)
        Apply(c, f, l2) ==
            Append2(c, l2, [MakeTransaction EXCEPT
                              !.Header.pageCount = Len(changes),
                              !.Body = TransactionBody(l2, changes, f.entries)])
        Fault(c, f) ==
            IF f.err # "nil"
            THEN [wal |-> c.wal, logFile |-> c.logFile, dataFile |-> c.dataFile,
                  lru |-> Collect(f.lru), err |-> f.err, id |-> 0, Body |-> <<>>,
                  touched |-> Len(f.entries) + 1]
            ELSE Apply(c, f, applyLoop(f.lru, changes, 1))
        Trigger(c) ==
            IF c.err # "nil"
            THEN [wal |-> c.wal, logFile |-> c.logFile, dataFile |-> c.dataFile,
                  lru |-> l, err |-> c.err, id |-> 0, Body |-> <<>>, touched |-> 0]
            ELSE Fault(c, faultLoop(c.wal, c.dataFile, l, capacity, changes, 1, <<>>))
    IN  Trigger(checkpointTrigger(w, lfile, dfile, l, threshold, done))

\* DatabaseManager.Initialize on a new DatabaseManager{} value: the log is
\* recovered first, and its error returned before the allocator is opened.
Initialize(lfile, dfile) ==
    LET Alloc(r, a) ==
            [wal |-> r.wal, logFile |-> r.file, allocator |-> a.allocator,
             dataFile |-> a.file, err |-> "nil"]
        Log(r) ==
            IF r.err # "nil"
            THEN [wal |-> r.wal, logFile |-> r.file, allocator |-> NewAllocator,
                  dataFile |-> dfile, err |-> r.err]
            ELSE Alloc(r, AllocatorInitialize(NewAllocator, dfile))
    IN  Log(WalInitialize(NewWal, lfile))

(***************************************************************************)
(* History of the log file.  gRecords lists the records written to the     *)
(* current log file: id, page entries, offset of the first byte, length,   *)
(* and whether the stored checksum is still the one that was written.      *)
(***************************************************************************)
RecordBytes(id, Body) ==
    LET Sum(data) == data \o LE(getChecksumFromBytes(data), 4)
    IN  Sum(RecordData(id, Len(Body), Body))

\* Records of the history that touch page p, in log order, valid ones only.
RECURSIVE RecordsOn(_, _)
RecordsOn(records, p) ==
    IF records = <<>> THEN <<>>
    ELSE LET r == Head(records)
             rest == RecordsOn(Tail(records), p)
         IN  IF r.valid /\ \E j \in 1..Len(r.Body) : r.Body[j].PageId = p
             THEN <<r>> \o rest ELSE rest

PagesOf(records) ==
    UNION {{records[i].Body[j].PageId : j \in 1..Len(records[i].Body)} :
             i \in {k \in 1..Len(records) : records[k].valid}}

\* A transaction of the WAL cache is the record r of the history.
IsRecord(t, r) ==
    /\ t.Header.transactionId = r.id
    /\ t.Header.pageCount = Len(r.Body)
    /\ t.Body = r.Body
    /\ t.End.TransactionId = r.id
    /\ checkSum(t)[3]

EntriesOn(t, p) == Cardinality({j \in 1..Len(t.Body) : t.Body[j].PageId = p})

\* The transactions behind a list of the WAL cache: a transaction with k
\* entries on the page stands k times in a row for one record.
RECURSIVE InstalledRecords(_, _)
InstalledRecords(list, p) ==
    IF list = <<>> THEN <<>>
    ELSE LET k == IF EntriesOn(Head(list), p) > 1 THEN EntriesOn(Head(list), p) ELSE 1
         IN  <<Head(list)>> \o InstalledRecords(SubSeq(list, k + 1, Len(list)), p)

SameRecords(list, records) ==
    /\ Len(list) = Len(records)
    /\ \A i \in 1..Len(list) : IsRecord(list[i], records[i])

\* The list the WAL cache holds for page p.
CacheList(p) == IF p \in DOMAIN wal.Cache THEN wal.Cache[p] ELSE <<>>

(***************************************************************************)
(* The write-ahead log on its own, driven as wal_test.go drives it: a      *)
(* WriteAheadLog is initialized on wal.log, transactions are appended, the *)
(* file is closed and a new WriteAheadLog is initialized on it.  While the *)
(* file is closed the environment may leave an incomplete record at its    *)
(* end (a write cut short by a crash) or overwrite the stored checksum of  *)
(* a record.                                                               *)
(***************************************************************************)
Entry(pageId, offset, oldData, newData) ==
    [PageId |-> pageId, Offset |-> offset, Length |-> Len(newData),
     OldData |-> oldData, NewData |-> newData]

\* The page entries of the transactions appended: one entry; one longer
\* entry on another page; two pages; twice the same page.
WalBodies ==
    { <<Entry(1, 0, <<0>>, <<7>>)>>,
      <<Entry(2, 1, <<0, 0>>, <<8, 9>>)>>,
      <<Entry(1, 0, <<0>>, <<7>>), Entry(2, 1, <<0, 0>>, <<8, 9>>)>>,
      <<Entry(1, 0, <<0>>, <<7>>), Entry(1, 0, <<7>>, <<5>>)>> }

\* A transaction as the tests build it before AppendTransaction.
CallerTransaction(Body) ==
    [MakeTransaction EXCEPT !.Header.pageCount = Len(Body), !.Body = Body,
                            !.End.TransactionId = 1]

\* The history of the page cache, kept where track is set: the pages touched
\* since the cache was empty, the last touched first; whether a page was
\* touched a second time; whether a call that touched pages returned an
\* error; and the body every page holds after the deltas of the WritePages
\* calls that returned nil.
NoTouches == [track |-> FALSE, recency |-> <<>>, repeat |-> FALSE, erred |-> FALSE,
              content |-> [p \in 1..MaxCachePages |-> MakePageData]]

Forgotten(ref) == [ref EXCEPT !.recency = <<>>, !.repeat = FALSE, !.erred = FALSE]

Returned(ref, err) ==
    IF ref.track /\ err # "nil" THEN [ref EXCEPT !.erred = TRUE] ELSE ref

Touched(ref, p) ==
    IF ~ref.track THEN ref
    ELSE [ref EXCEPT !.recency = <<p>> \o SelectSeq(@, LAMBDA q : q # p),
                     !.repeat = @ \/ \E i \in 1..Len(ref.recency) : ref.recency[i] = p]

\* The first n deltas of a list touch their pages in order.
RECURSIVE TouchedBy(_, _, _, _)
TouchedBy(ref, changes, i, n) ==
    IF i > n THEN ref ELSE TouchedBy(Touched(ref, changes[i].pageId), changes, i + 1, n)

\* The deltas of a list laid over the bodies of their pages, in order.
RECURSIVE Written(_, _, _)
Written(ref, changes, i) ==
    IF i > Len(changes) \/ ~ref.track THEN ref
    ELSE Written([ref EXCEPT !.content[changes[i].pageId] =
                     [c \in 1..BodySize |->
                         IF c > changes[i].offset
                            /\ c <= changes[i].offset + Len(changes[i].newData)
                         THEN changes[i].newData[c - changes[i].offset] ELSE @[c]]],
                 changes, i + 1)

NoBudget == [events |-> 0, torn |-> 0, restarts |-> 0, appends |-> 0, writes |-> 0]

InitWal ==
    /\ logFile = <<>>
    /\ wal = WalInitialize(NewWal, <<>>).wal
    /\ dataFile = <<>>
    /\ allocator = NewAllocator
    /\ lru = EmptyLru
    /\ cacheCapacityPages = 1
    /\ checkpointSizeThreshold = 10000
    /\ last = [op |-> "Initialize", err |-> "nil",
               pre |-> [file |-> <<>>, records |-> <<>>, torn |-> 0, clean |-> TRUE]]
    /\ gRecords = <<>>
    /\ gTorn = 0
    /\ gClean = TRUE
    /\ gSnap = <<>>
    /\ gFlushed = <<>>
    /\ gWritten = {}
    /\ gAllocated = {}
    /\ gBudget = NoBudget
    /\ gRef = NoTouches

\* The history after a record was written at the handle's offset.
RecordsAfterAppend(w, file, Body) ==
    Append(gRecords, [id |-> w.nextTransactionId, Body |-> Body, start |-> w.Log.pos,
                      len |-> Len(RecordBytes(w.nextTransactionId, Body)), valid |-> TRUE])

WalAppend(Body, writeFails) ==
    /\ wal.Log.open
    /\ gBudget.appends < MaxLogRecords
    /\ writeFails => gBudget.events < MaxEvents
    /\ LET Do(r) ==
               /\ wal' = r.wal
               /\ logFile' = r.file
               /\ last' = [op |-> "AppendTransaction", err |-> r.err, ret |-> r.id,
                           pre |-> [Body |-> Body, start |-> wal.Log.pos,
                                    next |-> wal.nextTransactionId,
                                    size |-> wal.fileSize,
                                    end |-> Len(logFile),
                                    lists |-> [p \in DOMAIN wal.Cache |->
                                                  Len(wal.Cache[p])]]]
               /\ gRecords' = IF r.err = "nil" /\ wal.Log.pos = Len(logFile)
                              THEN RecordsAfterAppend(wal, logFile, Body) ELSE gRecords
               /\ gClean' = (gClean /\ (r.err # "nil" \/ wal.Log.pos = Len(logFile)))
       IN  Do(AppendTransaction(wal, logFile, CallerTransaction(Body), writeFails))
    /\ gBudget' = [gBudget EXCEPT !.appends = @ + 1,
                                  !.events = IF writeFails THEN @ + 1 ELSE @]
    /\ UNCHANGED <<gRef, dbVars, gTorn, gSnap, gFlushed, gWritten, gAllocated>>

WalClose ==
    /\ wal.Log.open
    /\ wal' = closeFile(wal)
    /\ last' = [op |-> "closeFile", err |-> "nil", pre |-> <<>>]
    /\ UNCHANGED <<gRef, logFile, dbVars, gRecords, gTorn, gClean, gSnap, gFlushed,
                   gWritten, gAllocated, gBudget>>

\* A new WriteAheadLog{} initialized on the file.  A caller that gets an
\* error does not use the object.
WalOpen ==
    /\ ~wal.Log.open
    /\ gBudget.restarts < MaxRestarts
    /\ LET Do(r) ==
               /\ wal' = IF r.err = "nil" THEN r.wal ELSE closeFile(r.wal)
               /\ logFile' = r.file
               /\ last' = [op |-> "Initialize", err |-> r.err,
                           pre |-> [file |-> logFile, records |-> gRecords,
                                    torn |-> gTorn, clean |-> gClean]]
       IN  Do(WalInitialize(NewWal, logFile))
    /\ gTorn' = IF gClean THEN 0 ELSE gTorn
    /\ gBudget' = [gBudget EXCEPT !.restarts = @ + 1]
    /\ UNCHANGED <<gRef, dbVars, gRecords, gClean, gSnap, gFlushed, gWritten, gAllocated>>

\* The record a crash cuts short: two entries, so that a cut can fall in
\* every kind of field and in both data blocks.
TornRecord ==
    RecordBytes(0, <<Entry(1, 0, <<0>>, <<7>>), Entry(2, 1, <<0, 0>>, <<8, 9>>)>>)

\* A crash in the middle of an append: the first k bytes of a record, k less
\* than its length, are at the end of the file.
EnvTorn(k) ==
    /\ ~wal.Log.open
    /\ gClean /\ gTorn = 0
    /\ gBudget.events < MaxEvents /\ gBudget.torn < MaxTorn
    /\ k < Len(TornRecord)
    /\ logFile' = logFile \o SubSeq(TornRecord, 1, k)
    /\ gTorn' = k
    /\ last' = [op |-> "torn", err |-> "nil", pre |-> [file |-> logFile]]
    /\ gBudget' = [gBudget EXCEPT !.events = @ + 1, !.torn = @ + 1]
    /\ UNCHANGED <<gRef, wal, dbVars, gRecords, gClean, gSnap, gFlushed, gWritten, gAllocated>>

\* The stored checksum of record i overwritten in place, as TestTruncate does.
EnvCorrupt(i) ==
    /\ ~wal.Log.open
    /\ gClean
    /\ gBudget.events < MaxEvents
    /\ i \in 1..Len(gRecords)
    /\ gRecords[i].valid
    /\ SubSeq(logFile, gRecords[i].start + gRecords[i].len - 3,
              gRecords[i].start + gRecords[i].len) # <<0, 1, 1, 0>>
    /\ logFile' = WriteAtOffset(logFile, gRecords[i].start + gRecords[i].len - 4, <<0, 1, 1, 0>>)
    /\ gRecords' = [gRecords EXCEPT ![i].valid = FALSE]
    /\ last' = [op |-> "corrupt", err |-> "nil", pre |-> [file |-> logFile]]
    /\ gBudget' = [gBudget EXCEPT !.events = @ + 1]
    /\ UNCHANGED <<gRef, wal, dbVars, gTorn, gClean, gSnap, gFlushed, gWritten, gAllocated>>

NextWal ==
    \/ \E Body \in WalBodies, writeFails \in BOOLEAN : WalAppend(Body, writeFails)
    \/ WalClose
    \/ WalOpen
    \/ \E k \in 1..Len(TornRecord) : EnvTorn(k)
    \/ \E i \in 1..MaxLogRecords : EnvCorrupt(i)

SpecWal == InitWal /\ [][NextWal]_vars

(***************************************************************************)
(* The write-ahead log over a log file that decays: while the file is      *)
(* closed the environment changes the transaction id in the footer of a    *)
(* record and leaves the rest of the record, the stored checksum included, *)
(* as it was written.                                                      *)
(***************************************************************************)
EnvFooter(i) ==
    /\ ~wal.Log.open
    /\ gClean
    /\ gBudget.events < MaxEvents
    /\ i \in 1..Len(gRecords)
    /\ LET at == gRecords[i].start + gRecords[i].len - 12
       IN  /\ Field(logFile, at, 8) = gRecords[i].id
           /\ logFile' = WriteAtOffset(logFile, at, LE(gRecords[i].id + 9, 8))
    /\ last' = [op |-> "footer", err |-> "nil", pre |-> [file |-> logFile]]
    /\ gBudget' = [gBudget EXCEPT !.events = @ + 1]
    /\ UNCHANGED <<gRef, wal, dbVars, gRecords, gTorn, gClean, gSnap, gFlushed,
                   gWritten, gAllocated>>

NextFooter ==
    \/ \E Body \in WalBodies : WalAppend(Body, FALSE)
    \/ WalClose
    \/ WalOpen
    \/ \E i \in 1..MaxLogRecords : EnvFooter(i)

SpecFooter == InitWal /\ [][NextFooter]_vars

(***************************************************************************)
(* The record format on its own, as TestAppendRead drives it: transactions *)
(* with no, one or two page entries are appended to a new log and read     *)
(* back with the WAL reader.  Page ids and offsets take one and several    *)
(* bytes; the data blocks have 0, 1 or 2 bytes.                            *)
(***************************************************************************)
CodecEntries ==
    { Entry(pageId, offset, data[1], data[2]) :
        pageId \in {1, 42}, offset \in {10, 70000},
        data \in { << <<>>, <<>> >>, << <<0>>, <<7>> >>, << <<1, 2>>, <<255, 0>> >> } }

CodecBodies ==
    {<<>>} \cup {<<e>> : e \in CodecEntries}
           \cup {<<e, f>> : e \in CodecEntries, f \in CodecEntries}

NextCodec == \E Body \in CodecBodies : WalAppend(Body, FALSE)

SpecCodec == InitWal /\ [][NextCodec]_vars

(***************************************************************************)
(* The database manager, driven through Initialize, AllocatePage, GetPage, *)
(* WritePages, flushCheckpoint and Shutdown as database_test.go drives it. *)
(* A call may fail.  After Shutdown, or after the process died, a new      *)
(* DatabaseManager is initialized on the same two files with the same      *)
(* configuration.                                                          *)
(***************************************************************************)
Capacities == {1, 2}
\* A record with one entry of one byte has 42 bytes, one with two bytes 44: a
\* first write of the former leaves the log below the threshold, any other
\* first write reaches it.
Thresholds == {43}

Running == wal.Log.open /\ allocator.Database.open

\* What GetPage(p) would return in this state.
GetPageRet(p) ==
    IF p \in DOMAIN lru.database
    THEN [data |-> lru.nodes[lru.database[p]].data, err |-> "nil"]
    ELSE loadPageFromDisc(wal, dataFile, p)

Delta(pageId, offset, newData) == [pageId |-> pageId, offset |-> offset, newData |-> newData]

\* The deltas callers pass: one cell, two cells over the same place, and one
\* that runs off the page.
Deltas(pages) ==
    {Delta(p, 0, <<1>>) : p \in pages} \cup {Delta(p, 0, <<2, 3>>) : p \in pages}
        \cup {Delta(p, BodySize - 1, <<4, 5>>) : p \in pages}

\* The lists of deltas callers pass: one delta, or two, on the same page or
\* on two pages, the second overlapping the first or running off the page.
ChangeLists(pages) ==
    {<<d>> : d \in Deltas(pages)}
        \cup {<<Delta(p, 0, <<1>>), Delta(q, 0, <<2, 3>>)>> : p \in pages, q \in pages}
        \cup {<<Delta(p, 0, <<1>>), Delta(q, BodySize - 1, <<4, 5>>)>> : p \in pages, q \in pages}

\* Some delta of the list runs off the page body.
OffThePage(changes) ==
    \E i \in 1..Len(changes) : changes[i].offset + Len(changes[i].newData) > BodySize

\* The bodies of the pages in the cache map.
CachedBodies == [p \in DOMAIN lru.database |-> lru.nodes[lru.database[p]].data]

PagesNamed(changes) == {changes[i].pageId : i \in 1..Len(changes)}

Init ==
    /\ cacheCapacityPages \in Capacities
    /\ checkpointSizeThreshold \in Thresholds
    /\ \E r \in {Initialize(<<>>, <<>>)} :
           /\ logFile = r.logFile
           /\ wal = r.wal
           /\ dataFile = r.dataFile
           /\ allocator = r.allocator
    /\ lru = EmptyLru
    /\ last = [op |-> "DbInitialize", err |-> "nil",
               pre |-> [file |-> <<>>, records |-> <<>>, torn |-> 0, clean |-> TRUE,
                        after |-> "none"]]
    /\ gRecords = <<>>
    /\ gTorn = 0
    /\ gClean = TRUE
    /\ gSnap = <<>>
    /\ gFlushed = <<>>
    /\ gWritten = {}
    /\ gAllocated = {}
    /\ gBudget = NoBudget
    /\ gRef = NoTouches

\* AllocatePage while the page count of the metadata page is below max.
DbAllocateBelow(max) ==
    /\ Running
    /\ ReadMetadata(dataFile, MetadataTotalPageOffset) < max
    /\ LET Do(r) ==
               /\ allocator' = r.allocator
               /\ dataFile' = r.file
               /\ gAllocated' = IF r.err = "nil" THEN gAllocated \cup {r.id} ELSE gAllocated
               /\ last' = [op |-> "AllocatePage", err |-> r.err, ret |-> r.id, pre |-> <<>>]
       IN  Do(AllocatePage(allocator, dataFile, PagetypeUserdata))
    /\ gFlushed' = <<>>
    /\ gSnap' = <<>>
    /\ UNCHANGED <<gRef, logFile, wal, lru, cacheCapacityPages, checkpointSizeThreshold,
                   gRecords, gTorn, gClean, gWritten, gBudget>>

DbAllocatePage == DbAllocateBelow(MaxPages)

DbGetPage(pageId) ==
    /\ Running
    /\ pageId \in gAllocated
    /\ LET Do(r) ==
               /\ lru' = Collect(r.lru)
               /\ last' = [op |-> "GetPage", err |-> r.err, pre |-> [page |-> pageId]]
               /\ gRef' = Returned(Touched(gRef, pageId), r.err)
       IN  Do(GetPage(wal, dataFile, lru, cacheCapacityPages, pageId))
    /\ gFlushed' = <<>>
    /\ gSnap' = <<>>
    /\ UNCHANGED <<logFile, wal, dataFile, allocator, cacheCapacityPages,
                   checkpointSizeThreshold, gRecords, gTorn, gClean,
                   gWritten, gAllocated, gBudget>>

\* The state of a process that died: only the files are left.
Died ==
    /\ wal' = NewWal
    /\ allocator' = NewAllocator
    /\ lru' = EmptyLru

DbWritePages(changes, done, writeFails) ==
    /\ Running
    /\ gBudget.writes < MaxWrites
    /\ writeFails => gBudget.events < MaxEvents
    /\ writeFails => \A i \in 1..Len(changes) :
                         changes[i].offset + Len(changes[i].newData) <= BodySize
    /\ LET triggered == wal.fileSize >= checkpointSizeThreshold
           Do(r) ==
               LET flushed == triggered /\ r.err # "panic"
                   recs == IF flushed THEN <<>> ELSE gRecords
                   wrote == r.err = "nil"
                   start == IF flushed THEN 0 ELSE wal.Log.pos
                   atEnd == start = (IF flushed THEN 0 ELSE Len(logFile))
               IN  /\ logFile' = r.logFile
                   /\ dataFile' = r.dataFile
                   /\ IF r.err = "panic" THEN Died
                      ELSE /\ wal' = r.wal
                           /\ lru' = r.lru
                           /\ allocator' = allocator
                   /\ gRecords' = IF wrote /\ atEnd
                                  THEN Append(recs, [id |-> r.id, Body |-> r.Body,
                                                     start |-> start,
                                                     len |-> Len(RecordBytes(r.id, r.Body)),
                                                     valid |-> TRUE])
                                  ELSE recs
                   /\ gTorn' = IF flushed THEN 0 ELSE gTorn
                   /\ gClean' = ((flushed \/ gClean) /\ (~wrote \/ atEnd))
                   /\ gWritten' = IF wrote THEN gWritten \cup PagesNamed(changes) ELSE gWritten
                   /\ last' = [op |-> "WritePages", err |-> r.err, ret |-> r.id,
                               pre |-> [changes |-> changes, triggered |-> triggered,
                                        due |-> Len(logFile) >= checkpointSizeThreshold,
                                        quiet |-> IF Len(logFile) < checkpointSizeThreshold
                                                  THEN dataFile ELSE <<>>,
                                        before |-> IF gRef.track
                                                   THEN [p \in gWritten |-> gRef.content[p]]
                                                   ELSE <<>>,
                                        was |-> IF OffThePage(changes)
                                                THEN [logFile |-> logFile, wal |-> wal,
                                                      bodies |-> CachedBodies]
                                                ELSE <<>>]]
                   /\ gBudget' = [gBudget EXCEPT !.writes = @ + 1,
                                      !.events = IF writeFails THEN @ + 1 ELSE @]
                   /\ gRef' = IF r.err = "panic" THEN Forgotten(gRef)
                              ELSE IF wrote
                              THEN Written(TouchedBy(gRef, changes, 1, r.touched), changes, 1)
                              ELSE Returned(TouchedBy(gRef, changes, 1, r.touched), r.err)
       IN  Do(WritePages(wal, logFile, dataFile, lru, cacheCapacityPages,
                         checkpointSizeThreshold, changes, done, writeFails))
    /\ gFlushed' = <<>>
    /\ gSnap' = <<>>
    /\ UNCHANGED <<cacheCapacityPages, checkpointSizeThreshold, gAllocated>>

\* What a caller can observe: the two files, the WAL cache, and what GetPage
\* returns for every allocated page.
Observable ==
    [dataFile |-> dataFile, logFile |-> logFile, Cache |-> wal.Cache,
     get |-> [p \in gAllocated \cup DOMAIN wal.Cache |-> GetPageRet(p)]]

DbFlushCheckpoint(done) ==
    /\ Running
    /\ LET Do(r, before) ==
               /\ logFile' = r.logFile
               /\ dataFile' = r.dataFile
               /\ IF r.err = "panic" THEN Died
                  ELSE /\ wal' = r.wal
                       /\ UNCHANGED <<lru, allocator>>
               /\ gRef' = IF r.err = "panic" THEN Forgotten(gRef) ELSE gRef
               /\ gFlushed' = IF r.err = "nil"
                              THEN [p \in DOMAIN wal.Cache \cup DOMAIN gFlushed |-> before.get[p]]
                              ELSE <<>>
               /\ gRecords' = IF r.err = "nil" THEN <<>> ELSE gRecords
               /\ gTorn' = IF r.err = "nil" THEN 0 ELSE gTorn
               /\ gClean' = (r.err = "nil" \/ gClean)
               /\ last' = [op |-> "FlushCheckpoint", err |-> r.err,
                           pre |-> [pages |-> DOMAIN wal.Cache,
                                    observable |-> before,
                                    after |-> [op |-> last.op, err |-> last.err]]]
       IN  Do(flushCheckpoint(wal, logFile, dataFile, lru, done), Observable)
    /\ gSnap' = <<>>
    /\ UNCHANGED <<cacheCapacityPages, checkpointSizeThreshold, gWritten, gAllocated, gBudget>>

\* Shutdown closes the two files.  The DatabaseManager value is not used
\* again (the next Initialize is on a new one), so its cache is dropped
\* with it.
DbShutdown ==
    /\ Running
    /\ wal' = closeFile(wal)
    /\ allocator' = CloseFile(allocator)
    /\ lru' = EmptyLru
    /\ gSnap' = [p \in gWritten |-> GetPageRet(p)]
    /\ last' = [op |-> "Shutdown", err |-> "nil", pre |-> <<>>]
    /\ gRef' = Forgotten(gRef)
    /\ UNCHANGED <<logFile, dataFile, cacheCapacityPages, checkpointSizeThreshold,
                   gRecords, gTorn, gClean, gFlushed, gWritten, gAllocated, gBudget>>

\* A new DatabaseManager{} initialized on the two files.  A caller that
\* gets an error does not use the object.
DbInitialize ==
    /\ ~wal.Log.open
    /\ gBudget.restarts < MaxRestarts
    /\ LET Do(r) ==
               /\ logFile' = r.logFile
               /\ dataFile' = r.dataFile
               /\ wal' = IF r.err = "nil" THEN r.wal ELSE closeFile(r.wal)
               /\ allocator' = r.allocator
               /\ last' = [op |-> "DbInitialize", err |-> r.err,
                           pre |-> [file |-> logFile, records |-> gRecords, torn |-> gTorn,
                                    clean |-> gClean, after |-> last.op]]
       IN  Do(Initialize(logFile, dataFile))
    /\ lru' = EmptyLru
    /\ gRef' = Forgotten(gRef)
    /\ gTorn' = IF gClean THEN 0 ELSE gTorn
    /\ gBudget' = [gBudget EXCEPT !.restarts = @ + 1]
    /\ UNCHANGED <<cacheCapacityPages, checkpointSizeThreshold, gRecords, gClean,
                   gSnap, gFlushed, gWritten, gAllocated>>

Next ==
    \/ DbAllocatePage
    \/ \E pageId \in 1..MaxPages : DbGetPage(pageId)
    \/ \E changes \in ChangeLists(gAllocated) :
          \E done \in (IF wal.fileSize >= checkpointSizeThreshold
                        THEN FlushOrders(wal, lru) ELSE {{}}) :
              DbWritePages(changes, done, FALSE)
    \/ \E done \in FlushOrders(wal, lru) : DbFlushCheckpoint(done)
    \/ DbShutdown
    \/ gBudget.restarts < MaxReopens /\ DbInitialize

Spec == Init /\ [][Next]_vars

(***************************************************************************)
(* The database manager in plain use: pages are allocated, read and        *)
(* written, every WritePages call succeeds, and the manager is shut down   *)
(* and initialized again.  Nothing fails and nothing is done to the files  *)
(* from outside.                                                           *)
(***************************************************************************)
DbWritePagesOk(changes, done) ==
    /\ DbWritePages(changes, done, FALSE)
    /\ last'.err = "nil"

NextPlain ==
    \/ DbAllocatePage
    \/ \E pageId \in 1..MaxPages : DbGetPage(pageId)
    \/ \E changes \in ChangeLists(gAllocated) : DbWritePagesOk(changes, {})
    \/ DbShutdown
    \/ DbInitialize

SpecPlain == Init /\ [][NextPlain]_vars

(***************************************************************************)
(* The page cache in one session: the data file holds MaxCachePages user   *)
(* pages, allocated after Initialize, and the manager is driven by GetPage *)
(* and successful WritePages calls only.                                   *)
(***************************************************************************)
RECURSIVE AllocateTimes(_, _, _)
AllocateTimes(a, file, n) ==
    LET Again(r) == AllocateTimes(r.allocator, r.file, n - 1)
    IN  IF n = 0 THEN [allocator |-> a, file |-> file]
        ELSE Again(AllocatePage(a, file, PagetypeUserdata))

InitCache ==
    /\ cacheCapacityPages \in Capacities
    /\ checkpointSizeThreshold \in Thresholds
    /\ \E r \in {Initialize(<<>>, <<>>)} :
           /\ logFile = r.logFile
           /\ wal = r.wal
           /\ \E f \in {AllocateTimes(r.allocator, r.dataFile, MaxCachePages)} :
                  /\ dataFile = f.file
                  /\ allocator = f.allocator
    /\ lru = EmptyLru
    /\ last = [op |-> "AllocatePage", err |-> "nil", ret |-> MaxCachePages, pre |-> <<>>]
    /\ gRecords = <<>>
    /\ gTorn = 0
    /\ gClean = TRUE
    /\ gSnap = <<>>
    /\ gFlushed = <<>>
    /\ gWritten = {}
    /\ gAllocated = 1..MaxCachePages
    /\ gBudget = NoBudget
    /\ gRef = [NoTouches EXCEPT !.track = TRUE]

\* The lists of deltas passed here: one delta, or two on any two pages.
CacheChangeLists ==
    {<<Delta(p, 0, <<1>>)>> : p \in 1..MaxCachePages}
        \cup {<<Delta(p, 0, <<1>>), Delta(q, 0, <<2, 3>>)>> :
                 p \in 1..MaxCachePages, q \in 1..MaxCachePages}

NextCache ==
    \/ \E pageId \in 1..MaxCachePages : DbGetPage(pageId)
    \/ \E changes \in CacheChangeLists : DbWritePagesOk(changes, {})

SpecCache == InitCache /\ [][NextCache]_vars

(***************************************************************************)
(* A write burst in a second session.  The first session allocated page 1, *)
(* wrote two cells to it and shut down; a new manager is initialized on    *)
(* the two files, and pages are allocated, read and written with records   *)
(* that each reach the checkpoint threshold.                               *)
(***************************************************************************)
BurstDelta(p) == Delta(p, 0, <<2, 3>>)

InitBurst ==
    /\ cacheCapacityPages \in Capacities
    /\ checkpointSizeThreshold \in Thresholds
    /\ LET Reopened(w, r) ==
               /\ logFile = r.logFile
               /\ wal = r.wal
               /\ dataFile = r.dataFile
               /\ allocator = r.allocator
               /\ last = [op |-> "DbInitialize", err |-> r.err,
                          pre |-> [file |-> w.logFile,
                                   records |-> <<[id |-> w.id, Body |-> w.Body, start |-> 0,
                                                  len |-> Len(w.logFile), valid |-> TRUE]>>,
                                   torn |-> 0, clean |-> TRUE, after |-> "Shutdown"]]
               /\ gRecords = last.pre.records
           Wrote(w) == Reopened(w, Initialize(w.logFile, w.dataFile))
           Allocated(r, a) ==
               Wrote(WritePages(r.wal, r.logFile, a.file, EmptyLru, cacheCapacityPages,
                                checkpointSizeThreshold, <<BurstDelta(1)>>, {}, FALSE))
           Opened(r) == Allocated(r, AllocatePage(r.allocator, r.dataFile, PagetypeUserdata))
       IN  Opened(Initialize(<<>>, <<>>))
    /\ lru = EmptyLru
    /\ gTorn = 0
    /\ gClean = TRUE
    /\ gSnap = <<>>
    /\ gFlushed = <<>>
    /\ gWritten = {1}
    /\ gAllocated = {1}
    /\ gBudget = [NoBudget EXCEPT !.restarts = 1]
    /\ gRef = Written([NoTouches EXCEPT !.track = TRUE], <<BurstDelta(1)>>, 1)

NextBurst ==
    \/ DbAllocateBelow(MaxCachePages + 1)
    \/ \E pageId \in 1..MaxCachePages : DbGetPage(pageId)
    \/ \E p \in gAllocated : DbWritePagesOk(<<BurstDelta(p)>>, {})

SpecBurst == InitBurst /\ [][NextBurst]_vars

(***************************************************************************)
(* One session with a log file that cannot always be written: the write   *)
(* of a record may fail, and WritePages then returns the error.            *)
(* Every call passes one delta.                                            *)
(***************************************************************************)
NextFailing ==
    \/ \E pageId \in 1..MaxCachePages : DbGetPage(pageId)
    \/ \E p \in 1..MaxCachePages : \E d \in {Delta(p, 0, <<1>>), BurstDelta(p)} :
          \E done \in (IF wal.fileSize >= checkpointSizeThreshold
                        THEN FlushOrders(wal, lru) ELSE {{}}) :
              \E writeFails \in BOOLEAN : DbWritePages(<<d>>, done, writeFails)

SpecFailing == InitCache /\ [][NextFailing]_vars

(***************************************************************************)
(* A session that goes on after a checkpoint.  The manager was initialized *)
(* on empty files, MaxCachePages pages were allocated, one cell of page 1  *)
(* was written and flushCheckpoint was called; pages are then read and     *)
(* written, with deltas of one cell and deltas that run off the page.      *)
(***************************************************************************)
AfterCheckpointLists ==
    {<<Delta(p, 0, <<1>>)>> : p \in 1..MaxCachePages}
        \cup {<<Delta(p, BodySize - 1, <<4, 5>>)>> : p \in 1..MaxCachePages}

InitAfterCheckpoint ==
    /\ cacheCapacityPages \in Capacities
    /\ checkpointSizeThreshold \in Thresholds
    /\ LET Flushed(w, c) ==
               /\ logFile = c.logFile
               /\ wal = c.wal
               /\ dataFile = c.dataFile
               /\ lru = w.lru
               /\ c.err = "nil"
           Wrote(w) == Flushed(w, flushCheckpoint(w.wal, w.logFile, w.dataFile, w.lru, {}))
           Allocated(r, f) ==
               /\ allocator = f.allocator
               /\ Wrote(WritePages(r.wal, r.logFile, f.file, EmptyLru, cacheCapacityPages,
                                   checkpointSizeThreshold, <<Delta(1, 0, <<1>>)>>, {}, FALSE))
           Opened(r) == Allocated(r, AllocateTimes(r.allocator, r.dataFile, MaxCachePages))
       IN  Opened(Initialize(<<>>, <<>>))
    /\ last = [op |-> "FlushCheckpoint", err |-> "nil",
               pre |-> [pages |-> {1}, observable |-> <<>>,
                        after |-> [op |-> "WritePages", err |-> "nil"]]]
    /\ gRecords = <<>>
    /\ gTorn = 0
    /\ gClean = TRUE
    /\ gSnap = <<>>
    /\ gFlushed = <<>>
    /\ gWritten = {1}
    /\ gAllocated = 1..MaxCachePages
    /\ gBudget = NoBudget
    /\ gRef = NoTouches

NextAfterCheckpoint ==
    \/ \E pageId \in 1..MaxCachePages : DbGetPage(pageId)
    \/ \E changes \in AfterCheckpointLists :
          \E done \in (IF wal.fileSize >= checkpointSizeThreshold
                        THEN FlushOrders(wal, lru) ELSE {{}}) :
              DbWritePages(changes, done, FALSE)

SpecAfterCheckpoint == InitAfterCheckpoint /\ [][NextAfterCheckpoint]_vars

(***************************************************************************)
(* The page cache over a data file that decays: in one session, with the   *)
(* pages allocated, the environment changes a cell of a page body in the   *)
(* data file and leaves the stored checksum as it was.  Pages are read and *)
(* written, and a call may return an error.                                *)
(***************************************************************************)
\* The stored checksum of page p is not the checksum of its body.
Rotten(file, p) == ReadPageData(file, p).err = "Checksum Mismatch"

EnvRot(p) ==
    /\ Running
    /\ gBudget.events < MaxEvents
    /\ p \in gAllocated
    /\ p \notin DOMAIN lru.database
    /\ LET Do(file) ==
               /\ Rotten(file, p)
               /\ dataFile' = file
       IN  Do([dataFile EXCEPT ![p + 1].body[BodySize] = 9])
    /\ last' = [op |-> "rot", err |-> "nil", pre |-> [page |-> p]]
    /\ gBudget' = [gBudget EXCEPT !.events = @ + 1]
    /\ UNCHANGED <<logFile, wal, allocator, lru, cacheCapacityPages, checkpointSizeThreshold,
                   gRecords, gTorn, gClean, gSnap, gFlushed, gWritten, gAllocated, gRef>>

NextRot ==
    \/ \E pageId \in 1..MaxCachePages : DbGetPage(pageId)
    \/ \E p \in gAllocated : DbWritePages(<<BurstDelta(p)>>, {}, FALSE)
    \/ \E p \in 1..MaxCachePages : EnvRot(p)

SpecRot == InitCache /\ [][NextRot]_vars

(***************************************************************************)
(* The page allocator on its own, driven as the allocator tests drive it:  *)
(* a PageAllocator is initialized on data.db, pages are allocated, written *)
(* and freed, the file is closed and a new PageAllocator is initialized on *)
(* it.  `last` keeps the call, the free-list head before it, and the three *)
(* calls before it.                                                        *)
(***************************************************************************)
PageTypes == {PagetypeUserdata, PagetypeFreepage + 1}

\* Page bodies a caller writes: whole bodies of BodySize cells.
Bodies == {[i \in 1..BodySize |-> 6 + i],
           [i \in 1..BodySize |-> IF i = BodySize THEN 5 ELSE 0]}

\* What is kept of the call before: the call, the page it returned or was
\* given, and the free-list head it found.
Trail == <<[op |-> last.op, id |-> last.ret, head |-> last.pre.head]>>
             \o SubSeq(last.pre.trail, 1, IF Len(last.pre.trail) < 2 THEN Len(last.pre.trail) ELSE 2)

Called(op, err, ret, more) ==
    [op |-> op, err |-> err, ret |-> ret,
     pre |-> [head |-> ReadFreeList(dataFile), trail |-> Trail, more |-> more,
              file |-> dataFile]]

InitAlloc ==
    /\ logFile = <<>>
    /\ wal = NewWal
    /\ \E r \in {AllocatorInitialize(NewAllocator, <<>>)} :
           /\ dataFile = r.file
           /\ allocator = r.allocator
    /\ lru = EmptyLru
    /\ cacheCapacityPages = 1
    /\ checkpointSizeThreshold = 10000
    /\ last = [op |-> "Initialize", err |-> "nil", ret |-> 0,
               pre |-> [head |-> 0, trail |-> <<>>, more |-> <<>>, file |-> <<>>]]
    /\ gRecords = <<>>
    /\ gTorn = 0
    /\ gClean = TRUE
    /\ gSnap = <<>>
    /\ gFlushed = <<>>
    /\ gWritten = {}
    /\ gAllocated = {}
    /\ gBudget = NoBudget
    /\ gRef = NoTouches

AllocUnchanged ==
    UNCHANGED <<logFile, wal, lru, cacheCapacityPages, checkpointSizeThreshold,
                gRecords, gTorn, gClean, gSnap, gFlushed, gWritten, gRef>>

AlAllocatePage(pageType) ==
    /\ allocator.Database.open
    /\ ReadFreeList(dataFile) # 0 \/ ReadMetadata(dataFile, MetadataTotalPageOffset) < MaxPages
    /\ LET Do(r) ==
               /\ allocator' = r.allocator
               /\ dataFile' = r.file
               /\ gAllocated' = IF r.err = "nil" THEN gAllocated \cup {r.id} ELSE gAllocated
               /\ last' = Called("AllocatePage", r.err, r.id, pageType)
       IN  Do(AllocatePage(allocator, dataFile, pageType))
    /\ UNCHANGED gBudget
    /\ AllocUnchanged

\* FreePage of a page that AllocatePage returned and that was not freed
\* since.
AlFreePage(id) ==
    /\ allocator.Database.open
    /\ id \in gAllocated
    /\ LET Do(r) ==
               /\ dataFile' = r.file
               /\ last' = Called("FreePage", r.err, id, <<>>)
       IN  Do(FreePage(dataFile, id))
    /\ gAllocated' = gAllocated \ {id}
    /\ UNCHANGED <<allocator, gBudget>>
    /\ AllocUnchanged

AlWritePageData(id, data) ==
    /\ allocator.Database.open
    /\ id \in gAllocated
    /\ dataFile' = WritePageData(dataFile, id, data)
    /\ last' = Called("WritePageData", "nil", id, [data |-> data, file |-> dataFile])
    /\ UNCHANGED <<allocator, gAllocated, gBudget>>
    /\ AllocUnchanged

AlCloseFile ==
    /\ allocator.Database.open
    /\ allocator' = CloseFile(allocator)
    /\ last' = Called("CloseFile", "nil", 0, <<>>)
    /\ UNCHANGED <<dataFile, gAllocated, gBudget>>
    /\ AllocUnchanged

\* A new PageAllocator{} initialized on the file.
AlInitialize ==
    /\ ~allocator.Database.open
    /\ gBudget.restarts < MaxReopens
    /\ LET Do(r) ==
               /\ allocator' = r.allocator
               /\ dataFile' = r.file
       IN  Do(AllocatorInitialize(NewAllocator, dataFile))
    /\ last' = Called("Initialize", "nil", 0, <<>>)
    /\ gBudget' = [gBudget EXCEPT !.restarts = @ + 1]
    /\ UNCHANGED gAllocated
    /\ AllocUnchanged

NextAlloc ==
    \/ \E pageType \in PageTypes : AlAllocatePage(pageType)
    \/ \E id \in 1..MaxPages : AlFreePage(id)
    \/ \E id \in 1..MaxPages, data \in Bodies : AlWritePageData(id, data)
    \/ AlCloseFile
    \/ AlInitialize

SpecAlloc == InitAlloc /\ [][NextAlloc]_vars

(***************************************************************************)
(* Properties of the database manager.                                     *)
(***************************************************************************)
\* The deltas of a list that cover cell c (counted from 1) of page p.
Covering(changes, p, c) ==
    {i \in 1..Len(changes) :
        /\ changes[i].pageId = p
        /\ c > changes[i].offset
        /\ c <= changes[i].offset + Len(changes[i].newData)}

Latest(S) == CHOOSE i \in S : \A j \in S : j <= i

\* GetPage(p) returns, without error, a body that has at every cell covered
\* by a delta of the list the byte of the last delta covering it.
ReadsBack(changes, p) ==
    /\ GetPageRet(p).err = "nil"
    /\ \A c \in 1..BodySize :
           Covering(changes, p, c) # {} =>
               GetPageRet(p).data[c] =
                   changes[Latest(Covering(changes, p, c))].newData[
                       c - changes[Latest(Covering(changes, p, c))].offset]

\* C1 -- read-your-writes: after a WritePages call that returned without
\* error, GetPage of every page named in the call returns a body holding the
\* new data of the deltas, the later delta winning where two overlap.
C1_ReadYourWrites ==
    (last.op = "WritePages" /\ last.err = "nil") =>
        \A p \in PagesNamed(last.pre.changes) : ReadsBack(last.pre.changes, p)

\* C2 -- crash-consistent reads: after Shutdown and Initialize on the same
\* files, GetPage returns for every written page what it returned before
\* the shutdown.
C2_SameAfterRestart ==
    (last.op = "DbInitialize" /\ last.err = "nil" /\ last.pre.after = "Shutdown") =>
        \A p \in DOMAIN gSnap : GetPageRet(p) = gSnap[p]

\* C3 -- checkpoint postcondition: when flushCheckpoint has returned without
\* error the log file and the WAL cache are empty and every page that had a
\* pending record reads from the data file, checksum verified, as GetPage
\* returned it just before; after a Shutdown and Initialize that follow,
\* GetPage returns these bodies again.
C3_CheckpointPost ==
    /\ (last.op = "FlushCheckpoint" /\ last.err = "nil") =>
           /\ logFile = <<>>
           /\ DOMAIN wal.Cache = {}
           /\ \A p \in last.pre.pages :
                  ReadPageData(dataFile, p) = last.pre.observable.get[p]
    /\ (last.op = "DbInitialize" /\ last.err = "nil" /\ last.pre.after = "Shutdown") =>
           \A p \in DOMAIN gFlushed : GetPageRet(p) = gFlushed[p]

C3_Witness ==
    /\ last.op = "DbInitialize" /\ last.err = "nil" /\ last.pre.after = "Shutdown"
    /\ logFile = <<>>
    /\ \E p \in DOMAIN gFlushed :
          /\ gFlushed[p].data # MakePageData
          /\ ReadPageData(dataFile, p) = gFlushed[p]
          /\ GetPageRet(p) = gFlushed[p]

\* C4 -- checkpoint idempotence: a second flushCheckpoint right after a
\* first leaves the data file, the log file, the WAL cache and the result of
\* every GetPage as the first left them.
C4_CheckpointIdempotent ==
    (/\ last.op = "FlushCheckpoint" /\ last.err = "nil"
     /\ last.pre.after = [op |-> "FlushCheckpoint", err |-> "nil"]) =>
        Observable = last.pre.observable

C4_Witness ==
    /\ last.op = "FlushCheckpoint" /\ last.err = "nil"
    /\ last.pre.after = [op |-> "FlushCheckpoint", err |-> "nil"]
    /\ \E p \in DOMAIN gFlushed : gFlushed[p].data # MakePageData
    /\ Observable = last.pre.observable
    /\ logFile = <<>>

\* The manager was initialized on a log that held the records of the
\* history back to back, and last.pre.torn further bytes.
DbRecovered == last.op = "DbInitialize" /\ last.err = "nil" /\ last.pre.clean

\* The pages named by the records of the history, valid or not.
PagesIn(records) ==
    UNION {{records[i].Body[j].PageId : j \in 1..Len(records[i].Body)} :
             i \in 1..Len(records)}

\* The records of the history whose index is in V, in log order.
Chosen(records, V) ==
    LET F[i \in 0..Len(records)] ==
            IF i = 0 THEN <<>>
            ELSE IF i \in V THEN Append(F[i - 1], records[i]) ELSE F[i - 1]
    IN  F[Len(records)]

\* Exactly the records `visible` are visible on page p: they are the ones
\* listed under p, and GetPage(p) returns the page of the data file with
\* their new data laid over it.
VisibleOn(visible, p) ==
    /\ SameRecords(InstalledRecords(CacheList(p), p), RecordsOn(visible, p))
    /\ IF RecordsOn(visible, p) = <<>>
       THEN GetPageRet(p) = ReadPageData(dataFile, p)
       ELSE GetPageRet(p) =
                [data |-> overlayList(readPageDataWithoutVerify(dataFile, p),
                                      RecordsOn(visible, p), p, 1),
                 err |-> "nil"]

\* C8 -- recovery atomicity: after the log was reopened, every record is
\* either visible on every page it touches (listed in the WAL cache under the
\* page and laid over it by GetPage) or on none; a record cut short or failing
\* its checksum is visible on none.
C8_RecoveryAtomic ==
    DbRecovered =>
        \E V \in SUBSET {i \in 1..Len(last.pre.records) : last.pre.records[i].valid} :
            \A p \in gAllocated \cup PagesIn(last.pre.records) \cup DOMAIN wal.Cache :
                VisibleOn(Chosen(last.pre.records, V), p)

\* C10 -- cache bound: the cache map never holds more pages than
\* cacheCapacityPages.
C10_CacheBound == Cardinality(DOMAIN lru.database) <= cacheCapacityPages

\* A miss at full capacity has just evicted a page.
C10_Witness ==
    /\ last.op \in {"GetPage", "WritePages"}
    /\ cacheCapacityPages > 1
    /\ Cardinality(DOMAIN lru.database) = cacheCapacityPages
    /\ gBudget.writes > 0
    /\ \E p \in gWritten : p \notin DOMAIN lru.database

(***************************************************************************)
(* Properties of WAL recovery.                                             *)
(***************************************************************************)
\* Initialize has just run on a file that held the records of the history,
\* back to back, and last.pre.torn further bytes.
Recovered == last.op = "Initialize" /\ last.pre.clean

EndOfRecords(records) ==
    IF records = <<>> THEN 0 ELSE records[Len(records)].start + records[Len(records)].len

AllValid(records) == \A i \in 1..Len(records) : records[i].valid

\* C5 -- WAL reopen: when a log that holds only appended transactions is
\* initialized again, the WAL cache lists under each page id exactly the
\* appended transactions that touch the page, each once, in append order,
\* with the appended page entries and a checksum that validates.
C5_WalReopen ==
    (Recovered /\ last.pre.torn = 0 /\ AllValid(last.pre.records)) =>
        \A p \in PagesOf(last.pre.records) \cup DOMAIN wal.Cache :
            SameRecords(CacheList(p), RecordsOn(last.pre.records, p))

\* C6 -- torn-record truncation: when whole records are followed by a proper
\* prefix of a record, Initialize cuts the file at the end of the last whole
\* record, which removes exactly the trailing bytes, and the WAL cache holds
\* exactly the checksum-valid records before them.
C6_TornTruncated ==
    (Recovered /\ last.pre.torn > 0) =>
        /\ logFile = SubSeq(last.pre.file, 1, Len(last.pre.file) - last.pre.torn)
        /\ Len(logFile) = EndOfRecords(last.pre.records)
        /\ \A p \in PagesOf(last.pre.records) \cup DOMAIN wal.Cache :
               SameRecords(InstalledRecords(CacheList(p), p),
                           RecordsOn(last.pre.records, p))

C6_Witness ==
    /\ Recovered /\ last.pre.torn > 0
    /\ last.pre.records # <<>>
    /\ Len(logFile) > 0
    /\ Len(logFile) + last.pre.torn = Len(last.pre.file)
    /\ DOMAIN wal.Cache # {}

\* The record at index i of the history is, byte for byte, still in the file.
BytesKept(r) ==
    /\ Len(logFile) >= r.start + r.len
    /\ SubSeq(logFile, r.start + 1, r.start + r.len)
         = SubSeq(last.pre.file, r.start + 1, r.start + r.len)

\* C7 -- checksum-mismatch skip: a whole record whose stored checksum does
\* not match is not installed under any page id, its bytes stay in the file,
\* and every checksum-valid record, also one after it, is installed.
C7_MismatchSkipped ==
    Recovered =>
        /\ \A i \in 1..Len(last.pre.records) :
               ~last.pre.records[i].valid => BytesKept(last.pre.records[i])
        /\ \A p \in DOMAIN wal.Cache : \A j \in 1..Len(wal.Cache[p]) :
               checkSum(wal.Cache[p][j])[3]
        /\ \A p \in PagesOf(last.pre.records) \cup DOMAIN wal.Cache :
               SameRecords(InstalledRecords(CacheList(p), p),
                           RecordsOn(last.pre.records, p))

C7_Witness ==
    /\ Recovered
    /\ \E i, j \in 1..Len(last.pre.records) :
          /\ i < j
          /\ ~last.pre.records[i].valid
          /\ last.pre.records[j].valid
          /\ \E p \in DOMAIN wal.Cache : IsRecord(wal.Cache[p][1], last.pre.records[j])
    /\ Len(logFile) = Len(last.pre.file)

\* C9 -- a torn record is not an error: Initialize returns success for a log
\* whose tail is a record cut off at any byte.
C9_TornNotSurfaced ==
    (Recovered /\ last.pre.torn > 0) => last.err = "nil"

(***************************************************************************)
(* Properties of the page cache.                                           *)
(***************************************************************************)
\* The pages touched so far, by calls that returned nil, were all different
\* and more than the cache holds.
DistinctTouches ==
    /\ gRef.track
    /\ ~gRef.repeat
    /\ ~gRef.erred
    /\ Len(gRef.recency) > cacheCapacityPages

\* C11: after touches of k > capacity different pages p1..pk, in that order,
\* on an empty cache, by GetPage and WritePages calls that returned nil, pk
\* is in the cache map and p1 is not, and GetPage(p1)
\* returns without an error the body p1 has after the deltas written to it.
C11_LruScenario ==
    DistinctTouches =>
        LET pk == gRef.recency[1]
            p1 == gRef.recency[Len(gRef.recency)]
        IN  /\ pk \in DOMAIN lru.database
            /\ p1 \notin DOMAIN lru.database
            /\ GetPageRet(p1) = [data |-> gRef.content[p1], err |-> "nil"]

\* C11, its case: three different pages were touched with a cache of two, and
\* the first of them was written.
C11_Witness ==
    /\ DistinctTouches
    /\ cacheCapacityPages = 2
    /\ gRef.content[gRef.recency[Len(gRef.recency)]] # MakePageData

\* The pages a cache of the given capacity holds under least-recently-used
\* replacement: the last `capacity` different pages touched.
ReferenceLru(capacity) ==
    {gRef.recency[i] : i \in {j \in 1..Len(gRef.recency) : j <= capacity}}

\* C12: after any touches by GetPage and WritePages, hits included, the pages
\* of the cache map are those of a least-recently-used cache of the same
\* capacity fed the same touches.
C12_LruOrder ==
    gRef.track => DOMAIN lru.database = ReferenceLru(cacheCapacityPages)

\* C13: a WritePages call runs flushCheckpoint first exactly when the log
\* file holds at least checkpointSizeThreshold bytes when the call starts,
\* also after an earlier checkpoint has replaced the log file.
C13_TriggerBySize ==
    last.op = "WritePages" => (last.pre.triggered <=> last.pre.due)

\* A WritePages call that found at least checkpointSizeThreshold bytes in
\* the log file has returned nil.
BurstCall ==
    /\ gRef.track
    /\ last.op = "WritePages" /\ last.err = "nil"
    /\ last.pre.due

\* C14: when WritePages is called with at least checkpointSizeThreshold
\* bytes in the log file and returns, the log file holds the record of that
\* call and nothing else, and every page written by an earlier transaction
\* reads from the data file (ReadPageData, checksum verified) with the body
\* it had before the call.
C14_BurstCheckpoint ==
    BurstCall =>
        /\ Len(gRecords) = 1
        /\ logFile = RecordBytes(gRecords[1].id, gRecords[1].Body)
        /\ \A p \in DOMAIN last.pre.before :
               ReadPageData(dataFile, p) = [data |-> last.pre.before[p], err |-> "nil"]

\* C15: a WritePages call with a delta that runs off the page body, at any
\* place in the list, returns an error; no cached page body is changed, the
\* log file is as it was, and so are the WAL cache, nextTransactionId and
\* fileSize.
C15_OutOfBounds ==
    (last.op = "WritePages" /\ OffThePage(last.pre.changes)) =>
        /\ last.err \notin {"nil", "panic"}
        /\ \A p \in DOMAIN last.pre.was.bodies \cap DOMAIN lru.database :
               CachedBodies[p] = last.pre.was.bodies[p]
        /\ logFile = last.pre.was.logFile
        /\ wal.Cache = last.pre.was.wal.Cache
        /\ wal.nextTransactionId = last.pre.was.wal.nextTransactionId
        /\ wal.fileSize = last.pre.was.wal.fileSize

\* C16: a page whose checksum in the data file is not that of its body is
\* not served without an error: GetPage of it returns the checksum error,
\* and a WritePages call with a delta on it returns an error, on the first
\* call and on every later one, while the data file stays as it is.
C16_RottenNotServed ==
    /\ (last.op = "GetPage" /\ Rotten(dataFile, last.pre.page)) =>
           last.err = "Checksum Mismatch"
    /\ (last.op = "WritePages"
        /\ \E i \in 1..Len(last.pre.changes) : Rotten(dataFile, last.pre.changes[i].pageId)) =>
           last.err # "nil"

C18_VerifyDatabase ==
    allocator.Database.open => VerifyDatabase(dataFile) = [ok |-> TRUE, err |-> "nil"]

\* AllocatePage has returned a page, and the calls before it were these, the
\* last one first.
AllocatedAfter(ops) ==
    /\ last.op = "AllocatePage" /\ last.err = "nil"
    /\ Len(last.pre.trail) >= Len(ops)
    /\ \A i \in 1..Len(ops) : last.pre.trail[i].op = ops[i]

\* C19: the AllocatePage that follows FreePage(id) returns id, sets the type
\* of that page to the type asked for, and sets the free-list head to the
\* head before id was freed; after FreePage(a) and FreePage(b) the next two
\* AllocatePage calls return b and then a.
C19_FreeListLifo ==
    /\ AllocatedAfter(<<"FreePage">>) =>
           /\ last.ret = last.pre.trail[1].id
           /\ dataFile[last.ret + 1].PageType = last.pre.more
           /\ ReadFreeList(dataFile) = last.pre.trail[1].head
    /\ AllocatedAfter(<<"AllocatePage", "FreePage", "FreePage">>) =>
           /\ last.pre.trail[1].id = last.pre.trail[2].id
           /\ last.ret = last.pre.trail[3].id

\* C19, its case: two pages were freed and two allocated, of another type
\* than they had.
C19_Witness ==
    /\ AllocatedAfter(<<"AllocatePage", "FreePage", "FreePage">>)
    /\ last.pre.trail[2].id # last.pre.trail[3].id
    /\ last.pre.more # PagetypeUserdata

\* C20: AllocatePage never returns page id 0, neither a page it adds to the
\* file nor a page of the free list, before or after the file is closed and
\* opened again.
C20_NeverPageZero ==
    (last.op = "AllocatePage" /\ last.err = "nil") => last.ret # 0

\* C20, its case: after the file was opened again, a page was taken from the
\* free list and the next one was added to the file.
C20_Witness ==
    /\ AllocatedAfter(<<"AllocatePage">>)
    /\ gBudget.restarts > 0
    /\ last.pre.head = 0
    /\ last.pre.trail[1].head # 0

\* C21 -- metadata of a new file: opening an empty data file leaves page 0
\* of type metadata with free-list head 0, page count 1 and page size 4096;
\* AllocatePage on the file whose page count is still 1 returns 1 and makes
\* the count 2; FreePage(id) makes the free-list head id and leaves the page
\* size as it was, 4096 in the session that created the file.
C21_NewFileMetadata ==
    /\ (last.op = "Initialize" /\ last.pre.file = <<>>) =>
           /\ Len(dataFile) = 1
           /\ dataFile[1].PageType = PagetypeMetadata
           /\ ReadFreeList(dataFile) = 0
           /\ ReadMetadata(dataFile, MetadataTotalPageOffset) = 1
           /\ ReadMetadata(dataFile, MetadataPageSizeOffset) = DefaultPageSize
    /\ (last.op = "AllocatePage"
          /\ ReadMetadata(last.pre.file, MetadataTotalPageOffset) = 1) =>
           /\ last.err = "nil"
           /\ last.ret = 1
           /\ ReadMetadata(dataFile, MetadataTotalPageOffset) = 2
    /\ last.op = "FreePage" =>
           /\ ReadFreeList(dataFile) = last.ret
           /\ ReadMetadata(dataFile, MetadataPageSizeOffset)
                  = ReadMetadata(last.pre.file, MetadataPageSizeOffset)
           /\ gBudget.restarts = 0 =>
                  ReadMetadata(dataFile, MetadataPageSizeOffset) = DefaultPageSize

\* The scenario of the metadata test: a new file, the first page allocated,
\* that page freed.
C21_Witness ==
    /\ last.op = "FreePage"
    /\ last.ret = 1
    /\ Len(last.pre.trail) = 2
    /\ last.pre.trail[1].op = "AllocatePage"
    /\ last.pre.trail[1].id = 1
    /\ last.pre.trail[2].op = "Initialize"
    /\ ReadFreeList(dataFile) = 1
    /\ ReadMetadata(dataFile, MetadataTotalPageOffset) = 2
    /\ ReadMetadata(dataFile, MetadataPageSizeOffset) = DefaultPageSize

\* C22 -- WAL record round trip: the bytes a successful AppendTransaction
\* wrote for a transaction (page count equal to the number of entries, every
\* length equal to the length of its two data blocks) decode with
\* getTransaction to the same page count and, entry by entry, the same page
\* id, offset, length, old data and new data, with the id the call returned
\* in header and footer; the stored checksum is the checksum of the decoded
\* fields; the record ends where the file ends.
C22_RecordRoundTrip ==
    (last.op = "AppendTransaction" /\ last.err = "nil") =>
        LET r == getTransaction(logFile, last.pre.start)
            Body == last.pre.Body
        IN  /\ r.err = "nil"
            /\ r.pos = Len(logFile)
            /\ r.transaction.Header.transactionId = last.ret
            /\ r.transaction.End.TransactionId = last.ret
            /\ r.transaction.Header.pageCount = Len(Body)
            /\ Len(r.transaction.Body) = Len(Body)
            /\ \A i \in 1..Len(Body) :
                   /\ r.transaction.Body[i].PageId = Body[i].PageId
                   /\ r.transaction.Body[i].Offset = Body[i].Offset
                   /\ r.transaction.Body[i].Length = Body[i].Length
                   /\ r.transaction.Body[i].OldData = Body[i].OldData
                   /\ r.transaction.Body[i].NewData = Body[i].NewData
            /\ checkSum(r.transaction)[3]
            /\ r.transaction.End.Checksum = checkSum(r.transaction)[1]

\* A second record, of two entries with different lengths, a page id and an
\* offset of more than one byte, was appended and read back.
C22_Witness ==
    /\ last.op = "AppendTransaction" /\ last.err = "nil"
    /\ last.pre.start > 0
    /\ Len(last.pre.Body) = 2
    /\ last.pre.Body[1].Length = 2 /\ last.pre.Body[2].Length = 1
    /\ last.pre.Body[1].Offset = 70000
    /\ getTransaction(logFile, last.pre.start).transaction.Body = last.pre.Body

\* C23 -- transaction id reset: after a successful flushCheckpoint the next
\* transaction id is 0; a WritePages call that ran a checkpoint and returned
\* nil returns id 0, and the record at the start of the new log carries id 0.
C23_IdReset ==
    /\ (last.op = "FlushCheckpoint" /\ last.err = "nil") => wal.nextTransactionId = 0
    /\ (last.op = "WritePages" /\ last.err = "nil" /\ last.pre.triggered) =>
           /\ last.ret = 0
           /\ getTransaction(logFile, 0).transaction.Header.transactionId = 0
           /\ getTransaction(logFile, 0).transaction.End.TransactionId = 0

\* C24 -- transaction id assignment: a successful AppendTransaction returns
\* the next transaction id as it was when the call began and leaves it one
\* higher, and the record it wrote carries the returned id in header and
\* footer; a failed AppendTransaction leaves the next transaction id as it
\* was.
C24_IdAssignment ==
    last.op = "AppendTransaction" =>
        IF last.err = "nil"
        THEN /\ last.ret = last.pre.next
             /\ wal.nextTransactionId = last.pre.next + 1
             /\ LET r == getTransaction(logFile, last.pre.start)
                IN  /\ r.err = "nil"
                    /\ r.transaction.Header.transactionId = last.ret
                    /\ r.transaction.End.TransactionId = last.ret
        ELSE wal.nextTransactionId = last.pre.next

\* After a failed append a second call succeeded, with the id the failed
\* call had left.
C24_Witness ==
    /\ last.op = "AppendTransaction" /\ last.err = "nil"
    /\ gBudget.events = 1 /\ gBudget.restarts = 0 /\ gBudget.appends = 2
    /\ last.ret = 0
    /\ wal.nextTransactionId = 1
    /\ Len(gRecords) = 1

\* C25 -- data file frame: a WritePages call made while the log file holds
\* fewer bytes than the checkpoint threshold leaves the data file as it was,
\* whether it returns nil or an error.
C25_DataFileFrame ==
    (last.op = "WritePages" /\ ~last.pre.due) => dataFile = last.pre.quiet

\* C26 -- pre-image capture: in the record a successful WritePages call
\* appended, entry i carries as old data the cells of the page under delta
\* i as they were before the call, and as new data the data of delta i.
C26_PreImage ==
    (last.op = "WritePages" /\ last.err = "nil" /\ gRecords # <<>>) =>
        LET t == getTransaction(logFile, gRecords[Len(gRecords)].start).transaction
            changes == last.pre.changes
            Old(p) == IF p \in DOMAIN last.pre.before THEN last.pre.before[p]
                      ELSE MakePageData
        IN  /\ Len(t.Body) = Len(changes)
            /\ \A i \in 1..Len(changes) :
                   /\ t.Body[i].PageId = changes[i].pageId
                   /\ t.Body[i].NewData = changes[i].newData
                   /\ t.Body[i].OldData =
                          SubSeq(Old(changes[i].pageId), changes[i].offset + 1,
                                 changes[i].offset + Len(changes[i].newData))

\* C27 -- fresh allocation appends: after every operation the page count of
\* the metadata page is the number of pages the file holds; an AllocatePage
\* that found the free list empty returns the index at the end of the file
\* as it was, leaves every page but page 0 as it was, and changes of page 0
\* only the page count and the checksum.
C27_FreshAppends ==
    /\ ReadMetadata(dataFile, MetadataTotalPageOffset) = Len(dataFile)
    /\ (last.op = "AllocatePage" /\ last.err = "nil" /\ last.pre.head = 0) =>
           /\ last.ret = Len(last.pre.file)
           /\ Len(dataFile) = Len(last.pre.file) + 1
           /\ \A q \in 2..Len(last.pre.file) : dataFile[q] = last.pre.file[q]
           /\ dataFile[1].PageType = last.pre.file[1].PageType
           /\ \A c \in 1..BodySize :
                  c # MetadataTotalPageOffset =>
                      dataFile[1].body[c] = last.pre.file[1].body[c]

\* C28 -- checkpoint of pages that are not cached: flushCheckpoint returns
\* nil whether or not the pages of the WAL cache are in the page cache, and
\* every page of the WAL cache that could be read before the call then
\* reads from the data file with the body it had.
C28_FlushUncached ==
    last.op = "FlushCheckpoint" =>
        /\ last.err = "nil"
        /\ \A p \in last.pre.pages :
               last.pre.observable.get[p].err = "nil" =>
                   ReadPageData(dataFile, p) = last.pre.observable.get[p]

\* The entries met from entry n by following prev (toward the tail) or next
\* (toward the head), at most k of them.
RECURSIVE TowardTail(_, _, _)
TowardTail(l, n, k) ==
    IF n = 0 \/ k = 0 THEN <<>> ELSE <<n>> \o TowardTail(l, l.nodes[n].prev, k - 1)

RECURSIVE TowardHead(_, _, _)
TowardHead(l, n, k) ==
    IF n = 0 \/ k = 0 THEN <<>> ELSE <<n>> \o TowardHead(l, l.nodes[n].next, k - 1)

\* C29 -- cache map and list consistency: after every GetPage and WritePages
\* call the entries met from head toward the tail, and from tail toward the
\* head, are the values of the cache map, each once; head has no newer and
\* tail no older neighbour; head and tail are the same entry when the map
\* holds one page and nil when it holds none.
C29_MapAndList ==
    last.op \in {"GetPage", "WritePages"} =>
        LET values == {lru.database[p] : p \in DOMAIN lru.database}
            n == Cardinality(DOMAIN lru.database)
            down == TowardTail(lru, lru.head, n + 1)
            up == TowardHead(lru, lru.tail, n + 1)
        IN  /\ Cardinality(values) = n
            /\ Len(down) = n /\ {down[i] : i \in 1..Len(down)} = values
            /\ Len(up) = n /\ {up[i] : i \in 1..Len(up)} = values
            /\ lru.head # 0 => lru.nodes[lru.head].next = 0
            /\ lru.tail # 0 => lru.nodes[lru.tail].prev = 0
            /\ n = 1 => lru.head = lru.tail
            /\ n = 0 => lru.head = 0 /\ lru.tail = 0

\* C30 -- WAL cache update on append: a successful AppendTransaction makes
\* the list of every page its transaction touches one entry longer and
\* leaves the other lists as long as they were; on a log of whole records
\* the lists then have the pages, lengths and page entries of the lists
\* that Initialize builds from the log file.
C30_CacheOnAppend ==
    (last.op = "AppendTransaction" /\ last.err = "nil") =>
        LET Body == last.pre.Body
            touched == {Body[i].PageId : i \in 1..Len(Body)}
            Before(p) == IF p \in DOMAIN last.pre.lists THEN last.pre.lists[p] ELSE 0
            rebuilt == WalInitialize(NewWal, logFile).wal.Cache
        IN  /\ DOMAIN wal.Cache = DOMAIN last.pre.lists \cup touched
            /\ \A p \in DOMAIN wal.Cache :
                   Len(wal.Cache[p]) = Before(p) + (IF p \in touched THEN 1 ELSE 0)
            /\ gClean =>
                   /\ DOMAIN wal.Cache = DOMAIN rebuilt
                   /\ \A p \in DOMAIN wal.Cache :
                          /\ Len(wal.Cache[p]) = Len(rebuilt[p])
                          /\ \A i \in 1..Len(wal.Cache[p]) :
                                 wal.Cache[p][i].Body = rebuilt[p][i].Body

\* The bytes of a decoded record that come before its stored checksum, as
\* they are in the file: header, entries, and the id of the footer.
BytesInFile(t) ==
    LE(t.Header.transactionId, 8) \o LE(t.Header.pageCount, 4)
        \o SerializeBody(t.Body) \o LE(t.End.TransactionId, 8)

\* C31 -- installed records are checksum-valid: every record Initialize
\* has installed in the WAL cache has a stored checksum equal to the
\* checksum of its bytes in the file, and a footer id equal to its header id.
C31_InstalledValid ==
    last.op = "Initialize" =>
        \A p \in DOMAIN wal.Cache : \A i \in 1..Len(wal.Cache[p]) :
            /\ wal.Cache[p][i].End.TransactionId = wal.Cache[p][i].Header.transactionId
            /\ wal.Cache[p][i].End.Checksum = getChecksumFromBytes(BytesInFile(wal.Cache[p][i]))

\* What the two files hold of page p: the body in the data file with the
\* records of the log file laid over it, as a new manager would load it.
LoggedBody(p) ==
    loadPageFromDisc([NewWal EXCEPT !.Cache = WalInitialize(NewWal, logFile).wal.Cache],
                     dataFile, p)

\* C32 -- log before apply: after a WritePages call whose append failed, no
\* cached page holds bytes that are not in the log: every cached page that
\* the files can produce has the body the files produce.
C32_LogBeforeApply ==
    (last.op = "WritePages" /\ last.err = "io") =>
        \A p \in DOMAIN lru.database :
            LoggedBody(p).err = "nil" => CachedBodies[p] = LoggedBody(p).data

\* C33 -- cache coherence: between operations every page of the cache map
\* has the body that loadPageFromDisc produces for it, the body of the data
\* file with the new data of the page's WAL cache entries laid over it in log
\* order; so a GetPage after the entry was evicted returns the same body.
C33_CacheCoherent ==
    \A p \in DOMAIN lru.database :
        loadPageFromDisc(wal, dataFile, p) = [data |-> CachedBodies[p], err |-> "nil"]

\* Cell c of page p under a list of transactions: the byte of the last
\* entry, in list order and then in body order, that carries page id p and
\* covers the cell; the byte of the body where no entry does.
CoversCell(list, p, c) ==
    {x \in (1..Len(list)) \X (1..BodySize) :
        /\ x[2] <= Len(list[x[1]].Body)
        /\ list[x[1]].Body[x[2]].PageId = p
        /\ c > list[x[1]].Body[x[2]].Offset
        /\ c <= list[x[1]].Body[x[2]].Offset + Len(list[x[1]].Body[x[2]].NewData)}

LastWins(data, list, p) ==
    [c \in 1..Len(data) |->
        IF CoversCell(list, p, c) = {} THEN data[c]
        ELSE LET x == CHOOSE y \in CoversCell(list, p, c) :
                          \A z \in CoversCell(list, p, c) :
                              z[1] < y[1] \/ (z[1] = y[1] /\ z[2] <= y[2])
                 e == list[x[1]].Body[x[2]]
             IN  e.NewData[c - e.Offset]]

\* C34 -- overlay order: for a page the data file holds with a valid
\* checksum, loadPageFromDisc returns the body of the data file with the new
\* data of the page's WAL cache entries laid over it in log order, the later
\* entry winning where two overlap and entries for other pages left out;
\* for any other page it returns the error of the read.
C34_OverlayOrder ==
    \A p \in 1..MaxPages :
        IF ReadPageData(dataFile, p).err = "nil"
        THEN loadPageFromDisc(wal, dataFile, p) =
                 [data |-> LastWins(ReadPageData(dataFile, p).data, CacheList(p), p),
                  err |-> "nil"]
        ELSE loadPageFromDisc(wal, dataFile, p).err = ReadPageData(dataFile, p).err

\* A page whose list holds a transaction that also writes another page, and
\* two transactions that write the first cell with different bytes.
C34_Witness ==
    \E p \in DOMAIN wal.Cache :
        /\ ReadPageData(dataFile, p).err = "nil"
        /\ Len(wal.Cache[p]) >= 2
        /\ \E i \in 1..Len(wal.Cache[p]) : \E j \in 1..Len(wal.Cache[p][i].Body) :
               wal.Cache[p][i].Body[j].PageId # p
        /\ \E x \in CoversCell(wal.Cache[p], p, 1), y \in CoversCell(wal.Cache[p], p, 1) :
               /\ x[1] < y[1]
               /\ wal.Cache[p][x[1]].Body[x[2]].NewData[1]
                      # wal.Cache[p][y[1]].Body[y[2]].NewData[1]
        /\ loadPageFromDisc(wal, dataFile, p).data # ReadPageData(dataFile, p).data

\* The pages on the free list: from id, through the first cell of each
\* page, for at most fuel steps.
RECURSIVE ChainFrom(_, _, _)
ChainFrom(file, id, fuel) ==
    IF id = 0 \/ fuel = 0 \/ id + 1 > Len(file) THEN {}
    ELSE {id} \cup ChainFrom(file, file[id + 1].body[1], fuel - 1)

\* The chain from id reaches 0 within fuel steps, through pages the file
\* has.
RECURSIVE ChainEnds(_, _, _)
ChainEnds(file, id, fuel) ==
    IF id = 0 THEN TRUE
    ELSE IF fuel = 0 \/ id + 1 > Len(file) THEN FALSE
    ELSE ChainEnds(file, file[id + 1].body[1], fuel - 1)

FreeChain == ChainFrom(dataFile, ReadFreeList(dataFile), MaxPages + 1)

\* C35: after every AllocatePage and every FreePage of an allocated page,
\* the chain from the free-list head through the first cell of each page
\* ends at 0 without a cycle, every page on it has the type free, and no
\* page that AllocatePage returned and that was not freed since is on it.
C35_FreeListWellFormed ==
    last.op \in {"AllocatePage", "FreePage"} =>
        /\ ChainEnds(dataFile, ReadFreeList(dataFile), MaxPages + 1)
        /\ \A p \in FreeChain : dataFile[p + 1].PageType = PagetypeFreepage
        /\ FreeChain \cap gAllocated = {}

\* C36: when the write of the record to the log file fails, AppendTransaction
\* returns the error and the WAL cache, nextTransactionId and fileSize are
\* what they were before the call.
C36_FailedAppend ==
    (last.op = "AppendTransaction" /\ last.err # "nil") =>
        /\ [p \in DOMAIN wal.Cache |-> Len(wal.Cache[p])] = last.pre.lists
        /\ wal.nextTransactionId = last.pre.next
        /\ wal.fileSize = last.pre.size

\* C37: every AppendTransaction that succeeds writes its record starting at
\* the end the log file had before the call, also after an Initialize that
\* truncated a torn tail or skipped a record with a checksum mismatch.
C37_ContiguousAppend ==
    (last.op = "AppendTransaction" /\ last.err = "nil") =>
        /\ last.pre.start = last.pre.end
        /\ Len(logFile) = last.pre.end + Len(RecordBytes(last.ret, last.pre.Body))

\* C38: after every Initialize, every AppendTransaction that succeeds (on
\* its own or within WritePages) and every clearFromDisc of a checkpoint, the
\* fileSize field of the WAL is the length of the log file in bytes; right
\* after a checkpoint has replaced the log it is 0.
C38_FileSize ==
    /\ (last.err = "nil" /\ last.op \in {"Initialize", "DbInitialize", "AppendTransaction",
                                         "WritePages", "FlushCheckpoint"}) =>
           wal.fileSize = Len(logFile)
    /\ (last.err = "nil" /\ last.op = "FlushCheckpoint") => wal.fileSize = 0

\* The transaction ids of the records in the log file, in log order, as the
\* reader finds them from byte offset pos.
RECURSIVE LogIdsFrom(_, _)
LogIdsFrom(bytes, pos) ==
    LET Step(r) == IF r.err # "nil" THEN <<>>
                   ELSE <<r.transaction.Header.transactionId>> \o LogIdsFrom(bytes, r.pos)
    IN  Step(getTransaction(bytes, pos))

\* C39: the transaction ids of the records of one log file are strictly
\* increasing in log order, through WritePages, Shutdown and Initialize of a
\* new manager: a record appended after an Initialize that recovered ids up
\* to n carries an id greater than n.
C39_IdsIncrease ==
    LET ids == LogIdsFrom(logFile, 0)
    IN  \A i, j \in 1..Len(ids) : i < j => ids[i] < ids[j]
====
